---- MODULE Spec2Model ----
(***************************************************************************)
(* Model of the plugin host of loganprice/pluginapp.                       *)
(*                                                                         *)
(*   Spec        the lifecycle supervisor (internal/manager): the plugin   *)
(*               map, StartPlugin / StopPlugin / StopAll / GetPlugin, the  *)
(*               health monitor goroutines and the restart callback.       *)
(*   SpecExec    the client proxy's Execute receive loop and the sink.     *)
(*   SpecParams  host-side parameter validation and default merging.       *)
(*   SpecCoord   the execution coordinator (ExecutePlugin).                *)
(*   SpecServer  the server skeleton's Execute and summary handlers.       *)
(*   SpecClient  the client proxy's GetInfo, summary and Close.            *)
(*   SpecConfig  descriptor validation and the catalog load.               *)
(*   SpecPlugins the bundled plugins' own parameter validation.           *)
(*   SpecSkeleton the server skeleton's start, Execute counting, graceful  *)
(*               stop and liveness probe, under fair scheduling.           *)
(*   SpecLaunch  GetStartCommand, the construction of the launch command.  *)
(*   SpecFlags   ParsePluginFlags, the parsing of pass-through arguments.  *)
(*   SpecFair    the supervisor under fair scheduling of its goroutines.   *)
(***************************************************************************)
EXTENDS Integers, Sequences, FiniteSets, TLC

(***************************************************************************)
(* Bounds of the model.                                                    *)
(***************************************************************************)
\* number of ManagedPlugin candidates (StartPlugin calls that pass the
\* "already running" check and spawn or dial) in one behaviour
MaxHandles == 1

(***************************************************************************)
(* Program constants.                                                      *)
(***************************************************************************)
\* manager.go:88   for retries := 0; retries < 5; retries++
ReadyAttempts == 5
\* manager.go:143  if plug.RestartCnt < 3
RestartBudget == 3
\* manager.go:136  MaxRetries: 3
MaxRetries == 3

\* the plugin names the caller uses
Names == {"a"}
Handles == 1..MaxHandles
NoHandle == 0
\* nil *exec.Cmd / nil client
NilRef == 0
\* owners of pm.mu: nobody, the caller goroutine, or the monitor of a handle
MuFree == 0
MuCaller == -1

\* plugin.PluginConfig, reduced to the fields StartPlugin and
\* GetStartCommand branch on
Configs ==
    { [Type |-> "binary",  Command |-> ""],
      [Type |-> "command", Command |-> ""],
      [Type |-> "remote",  Command |-> ""] }

VARIABLES
    plugins,        \* pm.plugins: name -> handle (NoHandle when absent)
    managed,        \* the ManagedPlugin structs, by handle
    nextH,          \* next handle to allocate
    procs,          \* per handle: the child processes running for it
    open,           \* per handle: the gRPC clients dialled for it and not closed
    restartSpawns,  \* per handle: process.Start() calls made by restartPlugin
    mon,            \* per handle: the MonitorPluginHealth goroutine
    ctxDone,        \* pm.ctx cancelled
    mu,             \* holder of pm.mu
    call,           \* the caller's operation in progress
    ret,            \* the result of the caller's last returned operation
    overBudget,     \* per handle: an OnUnhealthy callback ran with the budget spent
    \* Client.Execute
    stream,         \* the frames the plugin sends on the Execute stream
    recvd,          \* number of frames stream.Recv() has returned
    sinkLog,        \* the OutputHandler callbacks made, in order
    execPc,         \* "idle", "recv" (in the receive loop) or "done"
    execErr,        \* the error Execute returned
    execCtx,        \* the state of the ctx passed to Execute
    \* parameter validation and default merging
    info,           \* info.ParameterSchema
    defaults,       \* pluginConfig.Defaults
    raw,            \* the caller's parameters as passed in
    params,         \* the params map
    pstep,          \* "raw" before the merge loop, "merged" after it
    verdict,        \* the result of the last ValidateParameters(params)
    pverdict,       \* the plugin, and the result of its own validation of params
    \* ExecutePlugin
    cpc,            \* the position of ExecutePlugin
    ckind,          \* pluginConfig.Type, once looked up
    cctx,           \* ctx.Err(): "live", "Canceled" or "DeadlineExceeded"
    rpcs,           \* the RPCs issued to the plugin, in order
    cret,           \* what ExecutePlugin returned
    summary,        \* the ReportExecutionSummary request made
    launchParams,   \* ManagedPlugin.Params: a reference to a map, or NilRef
    spawnArgs,      \* the parameters the argv of the original spawn was built from
    restartArgs,    \* the parameters each restart built its argv from
    child,          \* the child processes of the run's supervisor
    \* Server.Execute
    sPc,            \* the position of the server's Execute handler
    sent,           \* the frames sent on the stream, with their sender
    implCalls,      \* the calls made to s.Impl, in order
    sRet,           \* what the Execute handler returned
    onErrRet,       \* what the stream handler's OnError last returned
    sendFailed,     \* a stream.Send of this call has failed
    sSummary,       \* the ReportExecutionSummary request handled, if any
    \* the client proxy (grpc.Client)
    c,              \* the Client struct: Name, Info and the state of Conn
    wire,           \* the calls made on the stub c.Client, in order
    cliRet,         \* what the proxy's last call returned
    \* the catalog
    file,           \* the catalog file as parsed: name -> descriptor as written
    config,         \* what LoadConfig returned: the AppConfig or an error
    checked,        \* the descriptor last given to Validate, and the result
    \* a plugin's server
    srv,            \* the server: how it was started, its services and state
    calls,          \* the Execute handlers of the server, by slot
    \* command lines
    launch,         \* the last GetStartCommand call and its result
    flags           \* the last ParsePluginFlags call and its result

supVars == <<plugins, managed, nextH, procs, open,
             restartSpawns, mon, ctxDone, mu, call, ret, overBudget>>

execVars == <<stream, recvd, sinkLog, execPc, execErr, execCtx>>

paramVars == <<info, defaults, raw, params, pstep, verdict, pverdict>>

coordVars == <<cpc, ckind, cctx, rpcs, cret, summary, launchParams, spawnArgs,
               restartArgs, child>>

serverVars == <<sPc, sent, implCalls, sRet, onErrRet, sendFailed, sSummary>>

clientVars == <<c, wire, cliRet>>

configVars == <<file, config, checked>>

skeletonVars == <<srv, calls>>

argvVars == <<launch, flags>>

vars == <<supVars, execVars, paramVars, coordVars, serverVars, clientVars,
          configVars, skeletonVars, argvVars>>

\* error values kept in lastErr and LastError: the kind, and for a health
\* check error the probe of the tick (0, 1, ...) whose failure it wraps
Err(kind) == [kind |-> kind, probe |-> 0]
Nil == Err("nil")

\* clients and processes are named after the code that created them: those
\* of StartPlugin and those of restartPlugin (which closes or kills the one
\* it replaces before it creates the next)
FromStart == 1
FromRestart == 2

\* the processes spawned for a handle that are running: cmd, the one
\* StartPlugin spawned or the one plug.Cmd refers to; pending, the one
\* restartPlugin has spawned and not yet stored; orphans, the number of
\* processes nothing refers to any more
NoProcs == [cmd |-> FALSE, pending |-> FALSE, orphans |-> 0]

\* ClientName is the Name field of the grpc.Client that Client and GRPCClient
\* point to
NoManaged ==
    [Name |-> "", Type |-> "", Command |-> "", Client |-> NilRef,
     GRPCClient |-> NilRef, Cmd |-> NilRef, RestartCnt |-> 0,
     LastError |-> Nil, ClientName |-> ""]

\* tick, notified and notifiedErr describe the monitor's latest tick: whether
\* one of its probes answered SERVING ("served") or none did ("failed"), the
\* number of OnUnhealthy calls made for it and the error passed to the latest
NoMon ==
    [pc |-> "idle", lastErr |-> Nil, client |-> NilRef,
     process |-> NilRef, tick |-> "none", notified |-> 0, notifiedErr |-> Nil]

\* the caller's operation in progress: StartPlugin in its readiness loop, or
\* StopAll between pm.cancelFunc() and pm.mu.Lock()
NoCall == [op |-> "none", name |-> "", cfg |-> [Type |-> "", Command |-> ""],
           h |-> NoHandle, retries |-> 0]
\* no client returned
NoClient == [ref |-> NilRef, Name |-> ""]

NoRet == [op |-> "none", err |-> "nil", did |-> <<>>, name |-> "",
          client |-> NoClient]

Return(op, err) == [NoRet EXCEPT !.op = op, !.err = err]

\* PluginConfig.GetStartCommand: fails for a command-type descriptor with an
\* empty template and for an unsupported type
GetStartCommandOk(cfg) ==
    \/ cfg.Type = "binary"
    \/ cfg.Type = "command" /\ cfg.Command # ""

\* exec.Cmd.Start on a command built with exec.CommandContext(pm.ctx, ...):
\* fails when the context is already done, and may fail for the environment's
\* reasons (no such file, ...)
StartOutcomes == IF ctxDone THEN {FALSE} ELSE {TRUE, FALSE}

ExistsNever(name) == FALSE

\* manager.go:53  _, exists := pm.plugins[name]
Exists(name) == plugins[name] # NoHandle

\* a map without keys
EmptyMap == [k \in {} |-> ""]

NoVerdict == [err |-> "none", name |-> ""]

\* no plugin has validated anything
NoPluginVerdict == [plugin |-> "", err |-> "none"]

\* NewPluginManager (manager.go:38-46)
SupInit ==
    /\ plugins = [n \in Names |-> NoHandle]
    /\ managed = [h \in Handles |-> NoManaged]
    /\ nextH = 1
    /\ procs = [h \in Handles |-> NoProcs]
    /\ open = [h \in Handles |-> {}]
    /\ restartSpawns = [h \in Handles |-> 0]
    /\ mon = [h \in Handles |-> NoMon]
    /\ ctxDone = FALSE
    /\ mu = MuFree
    /\ call = NoCall
    /\ ret = NoRet
    /\ overBudget = [h \in Handles |-> FALSE]

\* no Execute call made
ExecInit ==
    /\ stream = <<>>
    /\ recvd = 0
    /\ sinkLog = <<>>
    /\ execPc = "idle"
    /\ execErr = "nil"
    /\ execCtx = "live"

\* no parameters given
ParamsIdle ==
    /\ info = EmptyMap
    /\ defaults = EmptyMap
    /\ raw = EmptyMap
    /\ params = EmptyMap
    /\ pstep = "raw"
    /\ verdict = NoVerdict
    /\ pverdict = NoPluginVerdict

NoSummary == [issued |-> FALSE, success |-> FALSE]

\* the child processes of this run's supervisor: cmd, the state of the one
\* plug.Cmd refers to ("none" before the start and for a remote plugin, "up",
\* "dead" once it has died on its own, "killed"); diedAt, the first RPC of
\* ExecutePlugin not yet issued when it died; closed, whether a restart has
\* closed the
\* client p; orphan, whether a process that restartPlugin spawned and did not
\* store in plug.Cmd is running
NoChild == [cmd |-> "none", diedAt |-> "", closed |-> FALSE, orphan |-> FALSE]

\* ExecutePlugin not called
CoordInit ==
    /\ cpc = "lookup"
    /\ ckind = ""
    /\ cctx = "live"
    /\ rpcs = <<>>
    /\ cret = "none"
    /\ summary = NoSummary
    /\ launchParams = NilRef
    /\ spawnArgs = EmptyMap
    /\ restartArgs = <<>>
    /\ child = NoChild

\* no Execute request received
ServerInit ==
    /\ sPc = "idle"
    /\ sent = <<>>
    /\ implCalls = <<>>
    /\ sRet = "none"
    /\ onErrRet = "none"
    /\ sendFailed = FALSE
    /\ sSummary = [called |-> FALSE]

\* a nil *plugin.PluginInfo
NoInfo == [nil |-> TRUE]

NoCliRet == [op |-> "none", info |-> NoInfo, err |-> "nil", rpc |-> FALSE]

\* NewClientWithAddress (part_006:108-118): Name and Info are left zero
ClientInit ==
    /\ c = [Name |-> "", Info |-> NoInfo, Conn |-> "open"]
    /\ wire = <<>>
    /\ cliRet = NoCliRet

NoConfig == [err |-> "none", name |-> "", Plugins |-> [k \in {} |-> ""]]

NoCheck == [called |-> FALSE, err |-> "nil"]

\* no catalog read
ConfigIdle ==
    /\ file = [k \in {} |-> ""]
    /\ config = NoConfig
    /\ checked = NoCheck

\* number of Execute handlers a plugin's server runs at a time
MaxCalls == 2
Slots == 1..MaxCalls

\* no call in the slot; pre marks a call that began before close(done)
NoExecute == [pc |-> "idle", pre |-> FALSE]

\* no server started; late records that an Execute call began after
\* close(done), waited that wg.Wait found the counter above zero
SkeletonInit ==
    /\ srv = [via |-> "none", health |-> FALSE, state |-> "off", done |-> FALSE,
              stopper |-> "none", wg |-> 0, late |-> FALSE, waited |-> FALSE,
              check |-> "none"]
    /\ calls = [s \in Slots |-> NoExecute]

NoLaunch == [called |-> FALSE]

NoFlags == [called |-> FALSE]

\* no command line built or parsed
ArgvIdle ==
    /\ launch = NoLaunch
    /\ flags = NoFlags

Init ==
    /\ SupInit /\ ExecInit /\ ParamsIdle /\ CoordInit /\ ServerInit /\ ClientInit /\ SkeletonInit /\ ArgvIdle
    /\ ConfigIdle

(***************************************************************************)
(* PluginManager.StartPlugin                                               *)
(***************************************************************************)
\* part_006:114-117  the Name of a client that NewClientWithAddress returns
NewClientName == ""

\* the ManagedPlugin built at manager.go:114-121, after manager.go:112 has
\* set grpcClient.Name = name
NewManaged(name, cfg, client, cmd) ==
    [Name |-> name, Type |-> cfg.Type, Command |-> cfg.Command,
     Client |-> client, GRPCClient |-> client, Cmd |-> cmd,
     RestartCnt |-> 0, LastError |-> Nil, ClientName |-> name]

\* EnableHealthCheck: go MonitorPluginHealth(pm.ctx, plug.GRPCClient, config)
EnableHealthCheck(h, client) ==
    [mon EXCEPT ![h] = [NoMon EXCEPT !.pc = "wait", !.client = client]]

HasProcessAlways(cmd) == TRUE

\* manager.go:124, 167, 186  Cmd != nil: the plugin is a local one
HasProcess(cmd) == cmd # NilRef

\* A call of the caller goroutine starts when no other call of it is in
\* progress and, as every operation but the cancel of StopAll begins with
\* pm.mu.Lock(), goes on when the lock is free.
CanCall == call.op = "none" /\ mu = MuFree

UnlockForgotten(m) == m

\* manager.go:51, 140  defer pm.mu.Unlock(): the holder's return frees pm.mu
Unlock(m) == MuFree

\* manager.go:50-55: the name is already in the map
StartExists(name, cfg) ==
    /\ Exists(name)
    /\ ret' = Return("StartPlugin", "AlreadyRunning")
    /\ UNCHANGED <<plugins, managed, nextH, procs, open, restartSpawns, mon,
                   ctxDone, mu, call, overBudget>>

\* manager.go:63-65, 97-129: a remote descriptor, one dial, no process
StartRemote(name, cfg) ==
    /\ ~Exists(name)
    /\ cfg.Type = "remote"
    /\ \E dialOk \in BOOLEAN :
         IF dialOk
         THEN /\ nextH \in Handles
              /\ managed' = [managed EXCEPT ![nextH] =
                               NewManaged(name, cfg, FromStart, NilRef)]
              /\ open' = [open EXCEPT ![nextH] = {FromStart}]
              /\ plugins' = [plugins EXCEPT ![name] = nextH]
              /\ nextH' = nextH + 1
              /\ mon' = IF HasProcess(NilRef)
                        THEN EnableHealthCheck(nextH, FromStart)
                        ELSE mon
              /\ ret' = Return("StartPlugin", "nil")
         ELSE /\ ret' = Return("StartPlugin", "ConnectError")
              /\ UNCHANGED <<managed, open, plugins, nextH, mon>>
    /\ UNCHANGED <<procs, restartSpawns, ctxDone, mu, call, overBudget>>

\* manager.go:66-86: a local descriptor, up to the spawn of the process
StartLocal(name, cfg) ==
    /\ ~Exists(name)
    /\ cfg.Type # "remote"
    /\ IF ~GetStartCommandOk(cfg)
       THEN /\ ret' = Return("StartPlugin", "StartCommandError")
            /\ UNCHANGED <<procs, nextH, mu, call>>
       ELSE \E started \in StartOutcomes :
              IF started
              THEN /\ nextH \in Handles
                   /\ procs' = [procs EXCEPT ![nextH].cmd = TRUE]
                   /\ nextH' = nextH + 1
                   /\ mu' = MuCaller
                   /\ call' = [op |-> "StartPlugin", name |-> name, cfg |-> cfg,
                                h |-> nextH, retries |-> 0]
                   /\ ret' = NoRet
              ELSE /\ ret' = Return("StartPlugin", "SpawnError")
                   /\ UNCHANGED <<procs, nextH, mu, call>>
    /\ UNCHANGED <<plugins, managed, open, restartSpawns, mon,
                   ctxDone, overBudget>>

\* manager.go:49-86: StartPlugin from the call to its return or, for a local
\* descriptor whose process was spawned, to the readiness loop
StartPlugin(name, cfg) ==
    /\ UNCHANGED <<execVars, paramVars, coordVars, serverVars, clientVars, configVars,
                 skeletonVars, argvVars>>
    /\ CanCall
    /\ \/ StartExists(name, cfg)
       \/ StartRemote(name, cfg)
       \/ StartLocal(name, cfg)

KillOnFailureSkipped(h) == procs

\* manager.go:99, 107  process.Process.Kill() on the failure paths
KillOnFailure(h) == [procs EXCEPT ![h].cmd = FALSE]

\* manager.go:88-129: one turn of the readiness loop (sleep one second, dial),
\* followed, when the loop ends, by the rest of StartPlugin
StartReady ==
    /\ UNCHANGED <<execVars, paramVars, coordVars, serverVars, clientVars, configVars,
                 skeletonVars, argvVars>>
    /\ call.op = "StartPlugin"
    /\ mu = MuCaller
    /\ LET h == call.h IN
       \E dialOk \in BOOLEAN :
         IF dialOk
         THEN /\ managed' = [managed EXCEPT ![h] =
                               NewManaged(call.name, call.cfg, FromStart, FromStart)]
              /\ open' = [open EXCEPT ![h] = {FromStart}]
              /\ mon' = IF HasProcess(FromStart)
                        THEN EnableHealthCheck(h, FromStart)
                        ELSE mon
              /\ plugins' = [plugins EXCEPT ![call.name] = h]
              /\ ret' = Return("StartPlugin", "nil")
              /\ call' = NoCall
              /\ mu' = Unlock(mu)
              /\ procs' = procs
         ELSE IF call.retries + 1 < ReadyAttempts
         THEN /\ call' = [call EXCEPT !.retries = call.retries + 1]
              /\ UNCHANGED <<managed, open, mon, plugins, ret, mu, procs>>
         ELSE /\ procs' = KillOnFailure(h)
              /\ ret' = Return("StartPlugin", "ConnectError")
              /\ call' = NoCall
              /\ mu' = Unlock(mu)
              /\ UNCHANGED <<managed, open, mon, plugins>>
    /\ UNCHANGED <<nextH, restartSpawns, ctxDone, overBudget>>

(***************************************************************************)
(* PluginManager.StopPlugin, StopAll, GetPlugin                            *)
(***************************************************************************)
\* Client.Close: c.Conn.Close(); closing a closed connection only returns an
\* error, which every caller in the manager ignores or logs
Close(op, h) == [op EXCEPT ![h] = @ \ {managed[h].Client}]

\* plugin.Cmd.Process.Kill(), skipped when Cmd is nil (remote plugin)
KillNothing(pr, h) == pr

Kill(pr, h) == [pr EXCEPT ![h].cmd = IF managed[h].Cmd # NilRef THEN FALSE ELSE @]

\* one step of a stop and whether it returned an error
Step(step, failed) == [step |-> step, failed |-> failed]

\* manager.go:162-173  what StopPlugin does to the entry of h, in order:
\* Close (which fails on a closed connection), Kill for a local plugin
\* (which may fail once the process is gone), delete
StopSteps(h, killFailed) ==
    <<Step("Close", managed[h].Client \notin open[h])>>
    \o (IF HasProcess(managed[h].Cmd)
        THEN <<Step("Kill", killFailed)>>
        ELSE <<>>)
    \o <<Step("delete", FALSE)>>

\* manager.go:153-175
StopPlugin(name) ==
    /\ UNCHANGED <<execVars, paramVars, coordVars, serverVars, clientVars, configVars,
                 skeletonVars, argvVars>>
    /\ CanCall
    /\ IF ~Exists(name)
       THEN /\ ret' = Return("StopPlugin", "NotRunning")
            /\ UNCHANGED <<plugins, open, procs>>
       ELSE LET h == plugins[name] IN
            /\ open' = Close(open, h)
            /\ procs' = Kill(procs, h)
            /\ plugins' = [plugins EXCEPT ![name] = NoHandle]
            /\ \E killFailed \in (IF procs[h].cmd THEN {FALSE} ELSE BOOLEAN) :
                 ret' = [Return("StopPlugin", "nil")
                           EXCEPT !.did = StopSteps(h, killFailed)]
    /\ UNCHANGED <<managed, nextH, restartSpawns, mon, ctxDone, mu, call,
                   overBudget>>

\* manager.go:179  pm.cancelFunc(), before the lock is requested
StopAllCall ==
    /\ UNCHANGED <<execVars, paramVars, coordVars, serverVars, clientVars, configVars,
                 skeletonVars, argvVars>>
    /\ call.op = "none"
    /\ ctxDone' = TRUE
    /\ call' = [NoCall EXCEPT !.op = "StopAll"]
    /\ ret' = NoRet
    /\ UNCHANGED <<plugins, managed, nextH, procs, open,
                   restartSpawns, mon, mu, overBudget>>

InMap == {plugins[n] : n \in Names} \ {NoHandle}

\* manager.go:180-190: close, kill and delete every entry
StopAll ==
    /\ UNCHANGED <<execVars, paramVars, coordVars, serverVars, clientVars, configVars,
                 skeletonVars, argvVars>>
    /\ call.op = "StopAll"
    /\ mu = MuFree
    /\ open' = [h \in Handles |-> IF h \in InMap THEN Close(open, h)[h] ELSE open[h]]
    /\ procs' = [h \in Handles |-> IF h \in InMap THEN Kill(procs, h)[h] ELSE procs[h]]
    /\ plugins' = [n \in Names |-> NoHandle]
    /\ ret' = Return("StopAll", "nil")
    /\ call' = NoCall
    /\ UNCHANGED <<managed, nextH, restartSpawns, mon,
                   ctxDone, mu, overBudget>>

\* manager.go:194-204, under the read lock: plugin.Client of the entry
GetPlugin(name) ==
    /\ UNCHANGED <<execVars, paramVars, coordVars, serverVars, clientVars, configVars,
                 skeletonVars, argvVars>>
    /\ CanCall
    /\ ret' = IF Exists(name)
              THEN [Return("GetPlugin", "nil") EXCEPT
                      !.name = name,
                      !.client = [ref |-> managed[plugins[name]].Client,
                                  Name |-> managed[plugins[name]].ClientName]]
              ELSE [Return("GetPlugin", "NotRunning") EXCEPT !.name = name]
    /\ UNCHANGED <<plugins, managed, nextH, procs, open, restartSpawns, mon,
                   ctxDone, mu, call, overBudget>>

\* exec.CommandContext(pm.ctx, ...): once pm.ctx is done, the goroutines that
\* Start left watching the context kill the processes
CtxKill ==
    /\ UNCHANGED <<execVars, paramVars, coordVars, serverVars, clientVars, configVars,
                 skeletonVars, argvVars>>
    /\ ctxDone
    /\ \E h \in Handles : procs[h] # NoProcs
    /\ procs' = [h \in Handles |-> NoProcs]
    /\ UNCHANGED <<plugins, managed, nextH, open,
                   restartSpawns, mon, ctxDone, mu, call, ret, overBudget>>

(***************************************************************************)
(* MonitorPluginHealth and the OnUnhealthy callback of EnableHealthCheck   *)
(***************************************************************************)
\* what healthClient.Check can answer on the connection the monitor was
\* given: only an error once that connection is closed or the context done
ProbeOutcomes(h) ==
    IF ctxDone \/ mon[h].client \notin open[h]
    THEN {"FAIL"}
    ELSE {"SERVING", "FAIL"}

\* part_003:42  lastErr = fmt.Errorf("health check failed: %v", err)
HealthCheckFailed(retry) == [kind |-> "HealthCheckFailed", probe |-> retry]

\* part_003:37  err == nil && resp.Status == SERVING
IsServing(outcome) == outcome = "SERVING"

ShouldNotifyAlways(lastErr) == TRUE

\* part_003:46  lastErr != nil && config.OnUnhealthy != nil
ShouldNotify(lastErr) == lastErr # Nil

\* part_003:31-44: the retry loop of one tick, run on the outcomes of its
\* probes (outcomes[1] is the outcome of the first probe).  It yields lastErr
\* and, for the record of the tick, whether a probe it made answered SERVING.
RECURSIVE RetryLoop(_, _, _, _)
RetryLoop(outcomes, retry, lastErr, tick) ==
    IF retry >= MaxRetries
    THEN [lastErr |-> lastErr, tick |-> tick]
    ELSE LET outcome == outcomes[retry + 1]
             seen == IF outcome = "SERVING" THEN "served" ELSE tick
         IN IF IsServing(outcome)
            THEN [lastErr |-> Nil, tick |-> seen]
            ELSE RetryLoop(outcomes, retry + 1, HealthCheckFailed(retry), seen)

\* part_003:30-48  case <-ticker.C: one tick up to the call of OnUnhealthy.
\* The loop works on the monitor's own variables and only reads the
\* connection and the context, so it is taken in one step.  select chooses
\* among the ready cases, so a tick can start although pm.ctx is done.
MonTick(h) ==
    /\ UNCHANGED <<execVars, paramVars, coordVars, serverVars, clientVars, configVars,
                 skeletonVars, argvVars>>
    /\ mon[h].pc = "wait"
    /\ \E outcomes \in [1..MaxRetries -> ProbeOutcomes(h)] :
         LET r == RetryLoop(outcomes, 0, Nil, "failed") IN
         mon' = [mon EXCEPT ![h].pc = IF ShouldNotify(r.lastErr) THEN "notify"
                                      ELSE "wait",
                            ![h].lastErr = r.lastErr,
                            ![h].tick = r.tick,
                            ![h].notified = 0,
                            ![h].notifiedErr = Nil]
    /\ UNCHANGED <<plugins, managed, nextH, procs, open, restartSpawns,
                   ctxDone, mu, call, ret, overBudget>>

\* part_003:28  case <-ctx.Done(): return
MonExit(h) ==
    /\ UNCHANGED <<execVars, paramVars, coordVars, serverVars, clientVars, configVars,
                 skeletonVars, argvVars>>
    /\ mon[h].pc = "wait"
    /\ ctxDone
    /\ mon' = [mon EXCEPT ![h] = [NoMon EXCEPT !.pc = "exited",
                                                    !.client = mon[h].client]]
    /\ UNCHANGED <<plugins, managed, nextH, procs, open,
                   restartSpawns, ctxDone, mu, call, ret, overBudget>>

CanRestartOnceMore(cnt) == cnt <= RestartBudget

CanRestartOnceLess(cnt) == cnt < RestartBudget - 1

\* manager.go:143  if plug.RestartCnt < 3
CanRestart(cnt) == cnt < RestartBudget

\* manager.go:138-147 with restartPlugin (manager.go:207-236) up to the
\* one-second pause: the callback takes pm.mu, records the error and, within
\* the budget, closes the client, kills the process and spawns a new one
OnUnhealthy(h) ==
    /\ UNCHANGED <<execVars, paramVars, coordVars, serverVars, clientVars, configVars,
                 skeletonVars, argvVars>>
    /\ mon[h].pc = "notify"
    /\ mu = MuFree
    /\ LET m == managed[h]
           err == mon[h].lastErr
       IN
       IF ~CanRestart(m.RestartCnt)
       THEN /\ managed' = [managed EXCEPT ![h].LastError = err]
            /\ mon' = [mon EXCEPT ![h].pc = "wait", ![h].notified = @ + 1,
                                  ![h].notifiedErr = err]
            /\ overBudget' = [overBudget EXCEPT ![h] = TRUE]
            /\ UNCHANGED <<open, procs, restartSpawns, mu>>
       ELSE
       IF m.Cmd = NilRef
       THEN /\ managed' = [managed EXCEPT ![h].RestartCnt = @ + 1,
                                          ![h].LastError = Err("NonLocal")]
            /\ mon' = [mon EXCEPT ![h].pc = "wait", ![h].notified = @ + 1,
                                  ![h].notifiedErr = err]
            /\ UNCHANGED <<open, procs, restartSpawns, mu, overBudget>>
       ELSE
       /\ open' = Close(open, h)
       /\ overBudget' = overBudget
       /\ IF ~GetStartCommandOk(m)
          THEN /\ managed' = [managed EXCEPT ![h].RestartCnt = @ + 1,
                                             ![h].LastError = Err("RestartCommandError")]
               /\ procs' = Kill(procs, h)
               /\ mon' = [mon EXCEPT ![h].pc = "wait", ![h].notified = @ + 1,
                                  ![h].notifiedErr = err]
               /\ UNCHANGED <<restartSpawns, mu>>
          ELSE
          /\ restartSpawns' = [restartSpawns EXCEPT ![h] = @ + 1]
          /\ \E started \in StartOutcomes :
               IF started
               THEN /\ managed' = [managed EXCEPT ![h].RestartCnt = @ + 1,
                                                  ![h].LastError = err]
                    /\ procs' = [Kill(procs, h) EXCEPT ![h].pending = TRUE]
                    /\ mon' = [mon EXCEPT ![h].pc = "restart",
                                          ![h].process = FromRestart,
                                          ![h].notified = @ + 1,
                                          ![h].notifiedErr = err]
                    /\ mu' = h
               ELSE /\ managed' = [managed EXCEPT ![h].RestartCnt = @ + 1,
                                                  ![h].LastError = Err("RestartSpawnError")]
                    /\ procs' = Kill(procs, h)
                    /\ mon' = [mon EXCEPT ![h].pc = "wait", ![h].notified = @ + 1,
                                  ![h].notifiedErr = err]
                    /\ mu' = mu
    /\ UNCHANGED <<plugins, nextH, ctxDone, call, ret>>

\* manager.go:238-255: after the pause, one dial; on success the handle takes
\* the new client, as NewClient returned it, and the new process; on failure
\* only LastError changes.  The
\* callback then returns and releases pm.mu.
RestartReconnect(h) ==
    /\ UNCHANGED <<execVars, paramVars, coordVars, serverVars, clientVars, configVars,
                 skeletonVars, argvVars>>
    /\ mon[h].pc = "restart"
    /\ mu = h
    /\ \E dialOk \in BOOLEAN :
         IF dialOk
         THEN /\ open' = [open EXCEPT ![h] = @ \cup {FromRestart}]
              /\ managed' = [managed EXCEPT ![h].Client = FromRestart,
                                            ![h].GRPCClient = FromRestart,
                                            ![h].ClientName = NewClientName,
                                            ![h].Cmd = mon[h].process]
              /\ procs' = [procs EXCEPT ![h].cmd = procs[h].pending,
                                        ![h].pending = FALSE]
         ELSE /\ managed' = [managed EXCEPT ![h].LastError = Err("ReconnectError")]
              /\ open' = open
              /\ procs' = [procs EXCEPT ![h].pending = FALSE,
                                        ![h].orphans = IF procs[h].pending
                                                       THEN @ + 1 ELSE @]
    /\ mon' = [mon EXCEPT ![h].pc = "wait", ![h].process = NilRef]
    /\ mu' = Unlock(mu)
    /\ UNCHANGED <<plugins, nextH, restartSpawns, ctxDone, call, ret, overBudget>>

Next ==
    \/ \E name \in Names, cfg \in Configs : StartPlugin(name, cfg)
    \/ StartReady
    \/ \E name \in Names : StopPlugin(name)
    \/ StopAllCall
    \/ StopAll
    \/ \E name \in Names : GetPlugin(name)
    \/ CtxKill
    \/ \E h \in Handles : MonTick(h)
    \/ \E h \in Handles : MonExit(h)
    \/ \E h \in Handles : OnUnhealthy(h)
    \/ \E h \in Handles : RestartReconnect(h)

Spec == Init /\ [][Next]_vars

TypeOK ==
    /\ \A n \in Names : plugins[n] \in Handles \cup {NoHandle}
    /\ nextH \in 1..(MaxHandles + 1)
    /\ mu \in {MuFree, MuCaller} \cup Handles

(***************************************************************************)
(* Properties of the supervisor                                            *)
(***************************************************************************)
\* the step is the OnUnhealthy callback of the monitor of h being invoked
Notifies(h) == mon[h].pc = "notify" /\ mon'[h].pc # "notify"

\* C1: every entry of the map is the one ManagedPlugin built for its name,
\* and a StartPlugin for a name that has an entry returns the "already
\* running" error and spawns nothing, dials nothing, starts no monitor and
\* leaves the map as it was.
C1_OnePerName ==
    /\ [](\A n \in Names :
            plugins[n] # NoHandle => managed[plugins[n]].Name = n)
    /\ [][\A name \in Names, cfg \in Configs :
            (plugins[name] # NoHandle /\ StartPlugin(name, cfg))
            => /\ ret' = Return("StartPlugin", "AlreadyRunning")
               /\ UNCHANGED <<plugins, managed, nextH, procs, open,
                              restartSpawns, mon, ctxDone, mu, call>>]_vars

C1_Witness ==
    /\ ret = Return("StartPlugin", "AlreadyRunning")
    /\ \E n \in Names : plugins[n] # NoHandle

\* C2: RestartCnt starts at 0, never decreases and never exceeds 3; a
\* callback that finds RestartCnt >= 3 closes, kills and spawns nothing; the
\* counter and the spawns of restartPlugin move only in an OnUnhealthy
\* callback, so at most 3 restarts happen for one handle.
C2_RestartBudget ==
    /\ [](\A h \in Handles :
            /\ managed[h].RestartCnt \in 0..RestartBudget
            /\ restartSpawns[h] <= RestartBudget)
    /\ [][\A h \in Handles :
            /\ managed'[h].RestartCnt >= managed[h].RestartCnt
            /\ (managed[h] = NoManaged /\ managed'[h] # NoManaged)
               => managed'[h].RestartCnt = 0
            /\ (Notifies(h) /\ managed[h].RestartCnt >= RestartBudget)
               => /\ UNCHANGED <<procs, open, restartSpawns, mu>>
                  /\ managed'[h] = [managed[h] EXCEPT !.LastError = mon[h].lastErr]
            /\ (\/ managed'[h].RestartCnt # managed[h].RestartCnt
                \/ restartSpawns'[h] # restartSpawns[h])
               => /\ Notifies(h)
                  /\ mon[h].lastErr.kind = "HealthCheckFailed"]_vars

C2_Witness ==
    \E h \in Handles : managed[h].RestartCnt = RestartBudget /\ overBudget[h]

\* C3: once StopAll has returned the map is empty, every child process the
\* supervisor spawned has been killed, and no health monitor starts a tick
\* or invokes OnUnhealthy any more.
C3_AfterStopAll ==
    /\ [](ret.op = "StopAll"
          => /\ \A n \in Names : plugins[n] = NoHandle
             /\ \A h \in Handles : procs[h] = NoProcs)
    /\ [][ret.op = "StopAll"
          => \A h \in Handles :
               /\ ~Notifies(h)
               /\ ~(mon[h].pc = "wait" /\ mon'[h].pc \notin {"wait", "exited"})]_vars

\* C6: a StartPlugin for a local descriptor that returns an error (no start
\* command, spawn failure, or the fifth failed dial of the readiness loop,
\* which makes no sixth attempt) leaves the map and the monitors as they
\* were and leaves no process of that call running.
C6_LaunchFailure ==
    /\ [](call.op = "StartPlugin" => call.retries < ReadyAttempts)
    /\ [][/\ \A name \in Names, cfg \in Configs :
               (/\ cfg.Type # "remote"
                /\ StartPlugin(name, cfg)
                /\ ret'.op = "StartPlugin")
               => UNCHANGED <<plugins, managed, procs, open, mon>>
          /\ (StartReady /\ ret'.op = "StartPlugin" /\ ret'.err # "nil")
             => /\ UNCHANGED <<plugins, managed, open, mon>>
                /\ procs'[call.h] = NoProcs
                /\ mon[call.h].pc = "idle"
                /\ call.retries = ReadyAttempts - 1]_vars

C6_Witness ==
    /\ ret = Return("StartPlugin", "ConnectError")
    /\ \E h \in Handles : h < nextH /\ managed[h] = NoManaged /\ procs[h] = NoProcs

\* C7: for every tick of a monitor: when one of its probes answered SERVING,
\* OnUnhealthy is not invoked for it; when none did, OnUnhealthy is invoked
\* once, with the error of the tick's last probe, and the monitor goes back
\* to waiting for the next tick.
C7_TickNotifies ==
    /\ [](\A h \in Handles :
            LET m == mon[h] IN
            /\ m.notified <= 1
            /\ m.tick = "served" => (m.pc \in {"wait"} /\ m.notified = 0)
            /\ (m.tick = "failed" /\ m.pc = "notify")
               => (m.notified = 0 /\ m.lastErr = HealthCheckFailed(MaxRetries - 1))
            /\ (m.tick = "failed" /\ m.pc # "notify")
               => (/\ m.pc \in {"restart", "wait"}
                   /\ m.notified = 1
                   /\ m.notifiedErr = HealthCheckFailed(MaxRetries - 1)))
    /\ [][\A h \in Handles :
            Notifies(h) => mon'[h].pc \in {"restart", "wait"}]_vars

C7_Witness ==
    \E h \in Handles :
        mon[h].tick = "failed" /\ mon[h].pc = "wait" /\ mon[h].notified = 1

\* C8: while the budget lasts every unhealthy tick makes one spawn attempt,
\* so a plugin whose probes always fail is restarted 3 times; after that an
\* unhealthy tick spawns nothing and leaves its health-check error in
\* LastError.
C8_ThreeRestarts ==
    /\ [](\A h \in Handles :
            /\ restartSpawns[h] = managed[h].RestartCnt
            /\ overBudget[h] => restartSpawns[h] = RestartBudget)
    /\ [][\A h \in Handles :
            Notifies(h)
            => IF restartSpawns[h] < RestartBudget
               THEN restartSpawns'[h] = restartSpawns[h] + 1
               ELSE /\ restartSpawns'[h] = restartSpawns[h]
                    /\ procs' = procs
                    /\ managed'[h].LastError = mon[h].lastErr
                    /\ managed'[h].LastError.kind = "HealthCheckFailed"]_vars

C8_Witness ==
    \E h \in Handles :
        /\ overBudget[h]
        /\ restartSpawns[h] = RestartBudget
        /\ managed[h].LastError.kind = "HealthCheckFailed"
        /\ mon[h].pc = "wait"

(***************************************************************************)
(* Client.Execute: the receive loop of the client proxy and the sink       *)
(***************************************************************************)
\* longest stream of frames a plugin sends in one Execute call
MaxFrames == 2

\* proto.ExecuteOutput: the three variants of resp.Content
OutputFrames == [variant : {"Output"}, Output : {"x", "y"}]

ErrorFrames ==
    [variant : {"Error"}, Code : {"E1", "E2"}, Message : {"m"}, Details : {""}]

ProgressFrames ==
    [variant : {"Progress"}, PercentComplete : {0, 100}, Stage : {"s"},
     CurrentStep : {1}, TotalSteps : {2}]

Frames == OutputFrames \cup ErrorFrames \cup ProgressFrames

Streams == UNION {[1..n -> Frames] : n \in 0..MaxFrames}

\* what an OutputHandler callback returns: nil (ui.outputHandler, part_005:52-76),
\* a *handledError (grpcOutputHandler.OnError, part_009:195-208) or another error
SinkReturns == {"nil", "handledError", "otherError"}

\* part_006:210  handler.OnOutput(content.Output)
OnOutput(content) == [cb |-> "OnOutput", msg |-> content.Output]

\* part_006:214  handler.OnError(content.Error.Code, .Message, .Details)
OnError(content) ==
    [cb |-> "OnError", code |-> content.Code, message |-> content.Message,
     details |-> content.Details]

ToProgressStepLost(content) ==
    [cb |-> "OnProgress", PercentComplete |-> content.PercentComplete,
     Stage |-> content.Stage, CurrentStep |-> content.TotalSteps,
     TotalSteps |-> content.TotalSteps]

\* part_006:216-221  handler.OnProgress(plugin.Progress{...})
ToProgress(content) ==
    [cb |-> "OnProgress", PercentComplete |-> content.PercentComplete,
     Stage |-> content.Stage, CurrentStep |-> content.CurrentStep,
     TotalSteps |-> content.TotalSteps]

\* part_006:214  return handler.OnError(...): the sink's value is returned as is
ErrorFrameResult(sinkRet) == sinkRet

\* stream.Recv() has a frame to return
HasFrame == execPc = "recv" /\ recvd < Len(stream)

\* Execute returns err
ExecReturn(err) == execPc' = "done" /\ execErr' = err

\* part_006:192-197  c.Client.Execute(ctx, ...) opens the stream
ExecuteOpen ==
    /\ execPc = "idle"
    /\ \E frames \in Streams, opened \in BOOLEAN :
         IF opened
         THEN /\ stream' = frames
              /\ execPc' = "recv"
              /\ execErr' = execErr
         ELSE /\ stream' = stream
              /\ ExecReturn("StartExecutionError")
    /\ UNCHANGED <<recvd, sinkLog, execCtx>>
    /\ UNCHANGED <<supVars, paramVars, coordVars, serverVars, clientVars, configVars,
                 skeletonVars, argvVars>>

\* part_006:209-212  case *proto.ExecuteOutput_Output
RecvOutput ==
    /\ HasFrame
    /\ stream[recvd + 1].variant = "Output"
    /\ recvd' = recvd + 1
    /\ sinkLog' = Append(sinkLog, OnOutput(stream[recvd + 1]))
    /\ \E sinkRet \in SinkReturns :
         IF sinkRet # "nil"
         THEN ExecReturn("OutputHandlerError")
         ELSE UNCHANGED <<execPc, execErr>>
    /\ UNCHANGED <<stream, execCtx>>
    /\ UNCHANGED <<supVars, paramVars, coordVars, serverVars, clientVars, configVars,
                 skeletonVars, argvVars>>

\* part_006:213-214  case *proto.ExecuteOutput_Error
RecvError ==
    /\ HasFrame
    /\ stream[recvd + 1].variant = "Error"
    /\ recvd' = recvd + 1
    /\ sinkLog' = Append(sinkLog, OnError(stream[recvd + 1]))
    /\ \E sinkRet \in SinkReturns : ExecReturn(ErrorFrameResult(sinkRet))
    /\ UNCHANGED <<stream, execCtx>>
    /\ UNCHANGED <<supVars, paramVars, coordVars, serverVars, clientVars, configVars,
                 skeletonVars, argvVars>>

\* part_006:215-223  case *proto.ExecuteOutput_Progress
RecvProgress ==
    /\ HasFrame
    /\ stream[recvd + 1].variant = "Progress"
    /\ recvd' = recvd + 1
    /\ sinkLog' = Append(sinkLog, ToProgress(stream[recvd + 1]))
    /\ \E sinkRet \in SinkReturns :
         IF sinkRet # "nil"
         THEN ExecReturn("ProgressHandlerError")
         ELSE UNCHANGED <<execPc, execErr>>
    /\ UNCHANGED <<stream, execCtx>>
    /\ UNCHANGED <<supVars, paramVars, coordVars, serverVars, clientVars, configVars,
                 skeletonVars, argvVars>>

\* part_006:200-204  Recv returns EOF once the plugin has closed the stream
RecvEOF ==
    /\ execPc = "recv"
    /\ recvd = Len(stream)
    /\ ExecReturn("nil")
    /\ UNCHANGED <<stream, recvd, sinkLog, execCtx>>
    /\ UNCHANGED <<supVars, paramVars, coordVars, serverVars, clientVars, configVars,
                 skeletonVars, argvVars>>

\* part_006:205  Recv returns another error (transport failure, cancellation)
RecvFail ==
    /\ execPc = "recv"
    /\ ExecReturn("ReceiveError")
    /\ UNCHANGED <<stream, recvd, sinkLog, execCtx>>
    /\ UNCHANGED <<supVars, paramVars, coordVars, serverVars, clientVars, configVars,
                 skeletonVars, argvVars>>

\* part_000:337-345  the Error frame the plugin sends when it finds its
\* stream's context done
Cancelled ==
    [variant |-> "Error", Code |-> "CANCELLED", Message |-> "m",
     Details |-> "context canceled"]

\* the caller cancels ctx during the receive loop; the plugin, which had put
\* sentSoFar frames on the stream, finds its stream context done at its next
\* check (part_000:335-346) and sends the CANCELLED frame instead of the rest
ExecCancel ==
    /\ execPc = "recv"
    /\ execCtx = "live"
    /\ execCtx' = "Canceled"
    /\ \E sentSoFar \in recvd..Len(stream) :
         stream' = Append(SubSeq(stream, 1, sentSoFar), Cancelled)
    /\ UNCHANGED <<recvd, sinkLog, execPc, execErr>>
    /\ UNCHANGED <<supVars, paramVars, coordVars, serverVars, clientVars, configVars,
                 skeletonVars, argvVars>>

ExecNext ==
    \/ ExecCancel
    \/ ExecuteOpen
    \/ RecvOutput
    \/ RecvError
    \/ RecvProgress
    \/ RecvEOF
    \/ RecvFail

SpecExec == Init /\ [][ExecNext]_vars

(***************************************************************************)
(* Client.ValidateParameters and the default merge of ExecutePlugin        *)
(***************************************************************************)
ParamNames == {"p", "q"}

\* plugin.ParameterSpec (types.go:25-32): the fields the host reads
ParameterSpecs ==
    [Required : BOOLEAN, DefaultValue : {"", "d"},
     AllowedValues : {<<>>, <<"y", "x">>}]

\* the maps with keys in D and values in V
Maps(D, V) == UNION {[S -> V] : S \in SUBSET D}

\* the orders in which a range loop may visit the keys of a map
Orders(m) ==
    {o \in [1..Cardinality(DOMAIN m) -> DOMAIN m] :
        \A i, j \in DOMAIN o : o[i] = o[j] => i = j}

Rejected(err, name) == [err |-> err, name |-> name]

MissingRequiredNever(spec, exists) == FALSE

\* part_006:164  if spec.Required && !exists
MissingRequired(spec, exists) == spec.Required /\ ~exists

\* part_006:171-177  the scan of spec.AllowedValues for value
Valid(value, allowed) == \E i \in 1..Len(allowed) : value = allowed[i]

\* part_006:161-185  the loop over info.ParameterSchema, visiting order[i..]
RECURSIVE ValidateLoop(_, _, _, _)
ValidateLoop(schema, p, order, i) ==
    IF i > Len(order)
    THEN Rejected("nil", "")
    ELSE LET name == order[i]
             spec == schema[name]
             exists == name \in DOMAIN p
         IN IF MissingRequired(spec, exists)
            THEN Rejected("MissingRequired", name)
            ELSE IF /\ exists
                    /\ Len(spec.AllowedValues) > 0
                    /\ ~Valid(p[name], spec.AllowedValues)
                 THEN Rejected("InvalidValue", name)
                 ELSE ValidateLoop(schema, p, order, i + 1)

\* part_006:154-188  Client.ValidateParameters
ValidateParameters ==
    /\ \E fetched \in BOOLEAN :
         IF ~fetched
         THEN verdict' = Rejected("GetInfoError", "")
         ELSE \E order \in Orders(info) :
                 verdict' = ValidateLoop(info, params, order, 1)
    /\ UNCHANGED <<info, defaults, raw, params, pstep, pverdict>>
    /\ UNCHANGED <<supVars, execVars, coordVars, serverVars, clientVars, configVars,
                 skeletonVars, argvVars>>

MergeDefaultSchemaFirst(p, name, spec) ==
    IF name \in DOMAIN p
    THEN p
    ELSE IF spec.DefaultValue # ""
         THEN p @@ (name :> spec.DefaultValue)
         ELSE IF name \in DOMAIN defaults
              THEN p @@ (name :> defaults[name])
              ELSE p

\* part_002:73-79  the body of the merge loop
MergeDefault(p, name, spec) ==
    IF name \in DOMAIN p
    THEN p
    ELSE IF name \in DOMAIN defaults
         THEN p @@ (name :> defaults[name])
         ELSE IF spec.DefaultValue # ""
              THEN p @@ (name :> spec.DefaultValue)
              ELSE p

\* part_002:72-81  the loop over info.ParameterSchema, visiting order[i..]
RECURSIVE MergeLoop(_, _, _, _)
MergeLoop(schema, p, order, i) ==
    IF i > Len(order)
    THEN p
    ELSE MergeLoop(schema, MergeDefault(p, order[i], schema[order[i]]),
                   order, i + 1)

\* part_002:71-81  "Merge params with defaults", on the caller's map
MergeDefaults ==
    /\ pstep = "raw"
    /\ \E order \in Orders(info) : params' = MergeLoop(info, params, order, 1)
    /\ pstep' = "merged"
    /\ verdict' = NoVerdict
    /\ UNCHANGED <<info, defaults, raw, pverdict>>
    /\ UNCHANGED <<supVars, execVars, coordVars, serverVars, clientVars, configVars,
                 skeletonVars, argvVars>>

\* a schema, the descriptor's defaults and the caller's parameters
ParamsInit ==
    /\ SupInit
    /\ ExecInit
    /\ CoordInit
    /\ ServerInit
    /\ ClientInit /\ SkeletonInit /\ ArgvIdle
    /\ ConfigIdle
    /\ info \in Maps(ParamNames, ParameterSpecs)
    /\ defaults \in Maps(ParamNames, {"", "c"})
    /\ raw \in Maps(ParamNames, {"x", "X"})
    /\ params = raw
    /\ pstep = "raw"
    /\ verdict = NoVerdict
    /\ pverdict = NoPluginVerdict

ParamsNext ==
    \/ ValidateParameters
    \/ MergeDefaults

SpecParams == ParamsInit /\ [][ParamsNext]_vars

(***************************************************************************)
(* Properties of Client.Execute                                            *)
(***************************************************************************)
\* the frames of the stream that Execute has received
Received == {i \in 1..Len(stream) : i <= recvd}

\* the callback cb hands the sink the variant and the payload of frame f
Delivers(cb, f) ==
    \/ /\ f.variant = "Output"
       /\ cb = [cb |-> "OnOutput", msg |-> f.Output]
    \/ /\ f.variant = "Error"
       /\ cb = [cb |-> "OnError", code |-> f.Code, message |-> f.Message,
                details |-> f.Details]
    \/ /\ f.variant = "Progress"
       /\ cb = [cb |-> "OnProgress", PercentComplete |-> f.PercentComplete,
                Stage |-> f.Stage, CurrentStep |-> f.CurrentStep,
                TotalSteps |-> f.TotalSteps]

\* the errors with which Execute gives up before the stream is drained
Aborts ==
    {"StartExecutionError", "ReceiveError", "OutputHandlerError",
     "ProgressHandlerError"}

\* C4: an Execute call that received an Error frame has called OnError once
\* and returns the non-nil error tagged as already surfaced, whatever the
\* sink's OnError returned.
C4_ErrorFrameSurfaced ==
    (execPc = "done" /\ \E i \in Received : stream[i].variant = "Error")
    => /\ Cardinality({i \in DOMAIN sinkLog : sinkLog[i].cb = "OnError"}) = 1
       /\ execErr = "handledError"

\* C5: the callbacks made are, in order, the frames received: one callback
\* per frame with the frame's variant and payload, nothing received or
\* delivered after the first Error frame; and a call that ends by the
\* stream's close or by an Error frame has delivered every frame the plugin
\* sent up to and including the first Error frame.
C5_FramesInOrder ==
    /\ recvd <= Len(stream)
    /\ Len(sinkLog) = recvd
    /\ \A i \in DOMAIN sinkLog :
         /\ Delivers(sinkLog[i], stream[i])
         /\ sinkLog[i].cb = "OnError" => i = Len(sinkLog)
    /\ \A i \in Received : stream[i].variant = "Error" => i = recvd
    /\ (execPc = "done" /\ execErr \notin Aborts)
       => \/ recvd = Len(stream)
          \/ stream[recvd].variant = "Error"

C5_Witness ==
    /\ execPc = "done"
    /\ Len(stream) >= 2
    /\ stream[1].variant = "Progress"
    /\ stream[2].variant = "Error"
    /\ Len(sinkLog) = 2
    /\ sinkLog[2].cb = "OnError"

\* C17: an Execute call that has ended after the caller cancelled the
\* context during the stream has delivered the plugin's CANCELLED Error
\* frame: the last callback the sink received is OnError with code CANCELLED.
C17_CancelDelivered ==
    (execPc = "done" /\ execCtx = "Canceled")
    => /\ sinkLog # <<>>
       /\ sinkLog[Len(sinkLog)].cb = "OnError"
       /\ sinkLog[Len(sinkLog)].code = "CANCELLED"

(***************************************************************************)
(* Properties of parameter validation and default merging                  *)
(***************************************************************************)
\* every required entry of the schema is present in p, and every value of p
\* whose entry lists allowed values is one of them
Acceptable(schema, p) ==
    \A name \in DOMAIN schema :
        /\ schema[name].Required => name \in DOMAIN p
        /\ (name \in DOMAIN p /\ schema[name].AllowedValues # <<>>)
           => p[name] \in {schema[name].AllowedValues[i] :
                             i \in DOMAIN schema[name].AllowedValues}

\* C9: with the schema fetched, ValidateParameters returns nil exactly when
\* every required schema entry is present and every present value whose
\* entry has allowed values equals one of them; a rejection names a schema
\* entry that is missing or whose value is not allowed, so names outside
\* the schema never cause one.
C9_ValidateExact ==
    verdict.err \in {"nil", "MissingRequired", "InvalidValue"}
    => /\ verdict.err = "nil" <=> Acceptable(info, params)
       /\ verdict.err = "MissingRequired"
          => /\ verdict.name \in DOMAIN info
             /\ info[verdict.name].Required
             /\ verdict.name \notin DOMAIN params
       /\ verdict.err = "InvalidValue"
          => /\ verdict.name \in DOMAIN info
             /\ verdict.name \in DOMAIN params
             /\ \A i \in DOMAIN info[verdict.name].AllowedValues :
                  info[verdict.name].AllowedValues[i] # params[verdict.name]

C9_Witness ==
    /\ verdict.err = "nil"
    /\ \E name \in DOMAIN params : name \notin DOMAIN info
    /\ \E name \in DOMAIN info :
         /\ info[name].Required
         /\ info[name].AllowedValues # <<>>
         /\ params[name] = "x"

\* C10: after the merge a name of the caller's map has the caller's value; a
\* schema name the caller left out has the descriptor's default when the
\* descriptor has that key, else the schema's default value when that is
\* not empty, else stays absent; a name outside the schema that the caller
\* left out stays absent.
C10_MergeDefaults ==
    pstep = "merged"
    => \A name \in ParamNames :
         IF name \in DOMAIN raw
         THEN name \in DOMAIN params /\ params[name] = raw[name]
         ELSE IF name \notin DOMAIN info
              THEN name \notin DOMAIN params
              ELSE IF name \in DOMAIN defaults
                   THEN name \in DOMAIN params /\ params[name] = defaults[name]
                   ELSE IF info[name].DefaultValue # ""
                        THEN /\ name \in DOMAIN params
                             /\ params[name] = info[name].DefaultValue
                        ELSE name \notin DOMAIN params

C10_Witness ==
    /\ pstep = "merged"
    /\ \E name \in DOMAIN info \ DOMAIN raw :
         /\ name \in DOMAIN defaults
         /\ info[name].DefaultValue # ""
         /\ params[name] = defaults[name]
    /\ \E name \in DOMAIN defaults : name \notin DOMAIN params

(***************************************************************************)
(* ExecutePlugin: one run of the execution coordinator (part_002:44-115)   *)
(***************************************************************************)
\* server.go:59-66  the frame the server sends when the plugin's
\* ValidateParameters rejects the request
InvalidParameters ==
    [variant |-> "Error", Code |-> "INVALID_PARAMETERS", Message |-> "m",
     Details |-> ""]

\* the frames of the streams of a run: one of each variant
CoordFrames ==
    { f \in Frames :
        \/ f.variant = "Output" /\ f.Output = "x"
        \/ f.variant = "Error" /\ f.Code = "E1"
        \/ f.variant = "Progress" /\ f.PercentComplete = 100 }

\* the streams a plugin may answer one Execute request with
CoordStreams ==
    UNION {[1..n -> CoordFrames] : n \in 0..MaxFrames} \cup {<<InvalidParameters>>}

\* the one map the caller passes in: params, and every reference to it
ParamsRef == 1

\* the map a reference points to
Deref(ref) == params

\* part_005:52-76  every callback of ui.outputHandler returns nil
HostSink(cb) == "nil"

\* part_006:199-225  the receive loop with the host's sink, from frame i on;
\* the Recv call number failAt returns an error other than EOF
RECURSIVE ExecuteLoop(_, _, _, _)
ExecuteLoop(frames, i, failAt, log) ==
    IF i = failAt
    THEN [log |-> log, err |-> "ReceiveError", recvd |-> i - 1]
    ELSE IF i > Len(frames)
    THEN [log |-> log, err |-> "nil", recvd |-> i - 1]
    ELSE LET f == frames[i] IN
         IF f.variant = "Output"
         THEN IF HostSink(OnOutput(f)) # "nil"
              THEN [log |-> Append(log, OnOutput(f)),
                    err |-> "OutputHandlerError", recvd |-> i]
              ELSE ExecuteLoop(frames, i + 1, failAt, Append(log, OnOutput(f)))
         ELSE IF f.variant = "Error"
         THEN [log |-> Append(log, OnError(f)),
               err |-> ErrorFrameResult(HostSink(OnError(f))), recvd |-> i]
         ELSE IF HostSink(ToProgress(f)) # "nil"
              THEN [log |-> Append(log, ToProgress(f)),
                    err |-> "ProgressHandlerError", recvd |-> i]
              ELSE ExecuteLoop(frames, i + 1, failAt, Append(log, ToProgress(f)))

\* an RPC on p can be answered: the plugin is remote, or its process is up
\* and p has not been closed
Reachable == ckind = "remote" \/ (child.cmd = "up" /\ ~child.closed)

StopAllKeepsProcess(ch) == ch

\* manager.go:178-191  StopAll closes the client and kills plug.Cmd.Process
\* of every entry of the map
StopAllKills(ch) == IF ch.cmd \in {"up", "dead"} THEN [ch EXCEPT !.cmd = "killed"] ELSE ch

\* ExecutePlugin returns err; the deferred StopAll (part_002:55) runs first
\* and drops the handle
CoordReturn(err) ==
    /\ cpc' = "done"
    /\ cret' = err
    /\ launchParams' = NilRef
    /\ child' = StopAllKills(child)

\* ExecutePlugin panics on a nil pointer: the deferred StopAll runs and the
\* host process ends
CoordPanic == CoordReturn("panic")

IsErrNever(err) == FALSE

\* part_002:68, 99  if err != nil
IsErr(err) == err # "nil"

\* part_002:45-52  GetPluginConfig and pluginConfig.Validate
CoordLookup ==
    /\ cpc = "lookup"
    /\ \E found \in BOOLEAN, valid \in BOOLEAN, kind \in {"binary", "remote"} :
         IF ~found
         THEN /\ cpc' = "done"
              /\ cret' = "ConfigError"
              /\ ckind' = ckind
         ELSE IF ~valid
         THEN /\ cpc' = "done"
              /\ cret' = "InvalidConfig"
              /\ ckind' = kind
         ELSE /\ cpc' = "start"
              /\ cret' = cret
              /\ ckind' = kind
    /\ UNCHANGED <<cctx, rpcs, summary, launchParams, spawnArgs, restartArgs,
                   child>>
    /\ UNCHANGED <<supVars, execVars, paramVars, serverVars, clientVars, configVars,
                 skeletonVars, argvVars>>

\* part_002:54-65  NewPluginManager, StartPlugin(pluginName, pluginConfig,
\* params) and GetPlugin; manager.go:120 keeps the caller's map in Params.
\* The dial of the readiness loop does not wait for the plugin, so
\* StartPlugin also succeeds when the process has died before it was ready.
CoordStart ==
    /\ cpc = "start"
    /\ \E started \in BOOLEAN :
         IF started
         THEN /\ cpc' = "getinfo"
              /\ cret' = cret
              /\ launchParams' = ParamsRef
              /\ spawnArgs' = params
              /\ IF ckind = "remote"
                 THEN child' = child
                 ELSE \/ child' = [child EXCEPT !.cmd = "up"]
                      \/ child' = [child EXCEPT !.cmd = "dead", !.diedAt = "GetInfo"]
         ELSE /\ CoordReturn("StartFailed")
              /\ spawnArgs' = spawnArgs
    /\ UNCHANGED <<ckind, cctx, rpcs, summary, restartArgs>>
    /\ UNCHANGED <<supVars, execVars, paramVars, serverVars, clientVars, configVars,
                 skeletonVars, argvVars>>

\* part_002:67-70  p.GetInfo(ctx); a failed call returns a nil info
CoordGetInfo ==
    /\ cpc = "getinfo"
    /\ rpcs' = Append(rpcs, "GetInfo")
    /\ \E fetched \in (IF cctx = "live" /\ Reachable THEN BOOLEAN ELSE {FALSE}) :
         LET err == IF fetched THEN "nil" ELSE "RpcError" IN
         IF IsErr(err)
         THEN CoordReturn("GetInfoFailed")
         ELSE IF ~fetched
         THEN CoordPanic
         ELSE /\ cpc' = "merge"
              /\ UNCHANGED <<cret, launchParams, child>>
    /\ UNCHANGED <<ckind, cctx, summary, spawnArgs, restartArgs>>
    /\ UNCHANGED <<supVars, execVars, paramVars, serverVars, clientVars, configVars,
                 skeletonVars, argvVars>>

\* part_002:72-81  the default merge, into the caller's map
CoordMerge ==
    /\ cpc = "merge"
    /\ \E order \in Orders(info) : params' = MergeLoop(info, params, order, 1)
    /\ pstep' = "merged"
    /\ cpc' = "execute"
    /\ UNCHANGED <<info, defaults, raw, verdict, pverdict>>
    /\ UNCHANGED <<ckind, cctx, rpcs, cret, summary, launchParams, spawnArgs,
                   restartArgs, child>>
    /\ UNCHANGED <<supVars, execVars, serverVars, clientVars, configVars,
                 skeletonVars, argvVars>>

\* part_002:83-88  p.Execute(ctx, params, handler), to its return; a call
\* that ended with a transport error may have ended so because the process
\* died while the call was in flight
CoordExecute ==
    /\ cpc = "execute"
    /\ rpcs' = Append(rpcs, "Execute")
    /\ \E frames \in CoordStreams, opened \in BOOLEAN :
       \E failAt \in 1..(Len(frames) + 2) :
         /\ (cctx # "live" \/ ~Reachable) => (~opened \/ failAt = 1)
         /\ IF ~opened
            THEN /\ execErr' = "StartExecutionError"
                 /\ UNCHANGED <<stream, recvd, sinkLog>>
            ELSE LET r == ExecuteLoop(frames, 1, failAt, <<>>) IN
                 /\ stream' = frames
                 /\ recvd' = r.recvd
                 /\ sinkLog' = r.log
                 /\ execErr' = r.err
    /\ \/ child' = child
       \/ /\ child.cmd = "up"
          /\ execErr' \in {"StartExecutionError", "ReceiveError"}
          /\ child' = [child EXCEPT !.cmd = "dead", !.diedAt = "Execute"]
    /\ execPc' = "done"
    /\ execCtx' = cctx
    /\ cpc' = "report"
    /\ UNCHANGED <<ckind, cctx, cret, summary, launchParams, spawnArgs,
                   restartArgs>>
    /\ UNCHANGED <<supVars, paramVars, serverVars, clientVars, configVars,
                 skeletonVars, argvVars>>

SuccessAlways(err) == TRUE

\* part_002:98  the success argument: execErr == nil
Success(err) == err = "nil"

\* part_002:90-103  p.ReportExecutionSummary(start, end, execErr == nil, ...):
\* a failed call returns a nil summary and is only logged; the summary of a
\* call that succeeded is displayed
CoordReport ==
    /\ cpc = "report"
    /\ rpcs' = Append(rpcs, "ReportExecutionSummary")
    /\ summary' = [issued |-> TRUE, success |-> Success(execErr)]
    /\ \E answered \in (IF Reachable THEN BOOLEAN ELSE {FALSE}) :
         LET err == IF answered THEN "nil" ELSE "RpcError" IN
         IF ~IsErr(err) /\ ~answered
         THEN CoordPanic
         ELSE /\ cpc' = "finish"
              /\ UNCHANGED <<cret, launchParams, child>>
    /\ UNCHANGED <<ckind, cctx, spawnArgs, restartArgs>>
    /\ UNCHANGED <<supVars, execVars, paramVars, serverVars, clientVars, configVars,
                 skeletonVars, argvVars>>

IsCanceledNever(ctxErr) == FALSE

\* part_002:106  ctx.Err() == context.Canceled
IsCanceled(ctxErr) == ctxErr = "Canceled"

\* part_002:105-114  the error policy
CoordFinish ==
    /\ cpc = "finish"
    /\ IF execErr # "nil"
       THEN IF IsCanceled(cctx)
            THEN CoordReturn("nil")
            ELSE CoordReturn("ExecutionFailed")
       ELSE CoordReturn("nil")
    /\ UNCHANGED <<ckind, cctx, rpcs, summary, spawnArgs, restartArgs>>
    /\ UNCHANGED <<supVars, execVars, paramVars, serverVars, clientVars, configVars,
                 skeletonVars, argvVars>>

\* the caller cancels ctx, or its deadline passes
CoordCancel ==
    /\ cpc # "done"
    /\ cctx = "live"
    /\ cctx' \in {"Canceled", "DeadlineExceeded"}
    /\ UNCHANGED <<cpc, ckind, rpcs, cret, summary, launchParams, spawnArgs,
                   restartArgs, child>>
    /\ UNCHANGED <<supVars, execVars, paramVars, serverVars, clientVars, configVars,
                 skeletonVars, argvVars>>

\* the RPC that ExecutePlugin issues next
NextRPC(pc) ==
    CASE pc = "getinfo" -> "GetInfo"
      [] pc \in {"merge", "execute"} -> "Execute"
      [] pc = "report" -> "ReportExecutionSummary"
      [] OTHER -> "none"

\* the plugin's process dies on its own between two steps of ExecutePlugin
CoordCrash ==
    /\ cpc \in {"getinfo", "merge", "execute", "report", "finish"}
    /\ child.cmd = "up"
    /\ child' = [child EXCEPT !.cmd = "dead", !.diedAt = NextRPC(cpc)]
    /\ UNCHANGED <<cpc, ckind, cctx, rpcs, cret, summary, launchParams,
                   spawnArgs, restartArgs>>
    /\ UNCHANGED <<supVars, execVars, paramVars, serverVars, clientVars, configVars,
                 skeletonVars, argvVars>>

\* manager.go:207-255  restartPlugin, run by the health monitor of a local
\* plugin: it closes the client, kills the process, builds the argv from
\* plug.Params, spawns and dials; a process it has spawned is stored in
\* plug.Cmd only when the dial succeeds
CoordRestart ==
    /\ launchParams # NilRef
    /\ ckind # "remote"
    /\ restartArgs = <<>>
    /\ restartArgs' = Append(restartArgs, Deref(launchParams))
    /\ \E spawned \in BOOLEAN, dialled \in BOOLEAN :
         child' = [child EXCEPT
                     !.closed = TRUE,
                     !.cmd = IF spawned /\ dialled THEN "up" ELSE "killed",
                     !.orphan = spawned /\ ~dialled]
    /\ UNCHANGED <<cpc, ckind, cctx, rpcs, cret, summary, launchParams,
                   spawnArgs>>
    /\ UNCHANGED <<supVars, execVars, paramVars, serverVars, clientVars, configVars,
                 skeletonVars, argvVars>>

\* exec.CommandContext(pm.ctx, ...): once StopAll has cancelled pm.ctx, the
\* goroutine that Start left watching the context kills the process
CoordCtxKill ==
    /\ cpc = "done"
    /\ child.orphan
    /\ child' = [child EXCEPT !.orphan = FALSE]
    /\ UNCHANGED <<cpc, ckind, cctx, rpcs, cret, summary, launchParams,
                   spawnArgs, restartArgs>>
    /\ UNCHANGED <<supVars, execVars, paramVars, serverVars, clientVars, configVars,
                 skeletonVars, argvVars>>

\* the plugin's schema, the descriptor's defaults and the caller's parameters
CoordParams ==
    /\ info \in Maps({"p"}, ParameterSpecs)
    /\ defaults \in Maps({"p"}, {"", "c"})
    /\ raw \in Maps({"p"}, {"x", "X"})
    /\ params = raw
    /\ pstep = "raw"
    /\ verdict = NoVerdict
    /\ pverdict = NoPluginVerdict

CoordInitial ==
    /\ SupInit /\ ExecInit /\ CoordParams /\ CoordInit /\ ServerInit /\ ClientInit /\ SkeletonInit /\ ArgvIdle
    /\ ConfigIdle

CoordNext ==
    \/ CoordLookup
    \/ CoordStart
    \/ CoordGetInfo
    \/ CoordMerge
    \/ CoordExecute
    \/ CoordReport
    \/ CoordFinish
    \/ CoordCancel
    \/ CoordCrash
    \/ CoordRestart
    \/ CoordCtxKill

SpecCoord == CoordInitial /\ [][CoordNext]_vars

(***************************************************************************)
(* Properties of ExecutePlugin                                             *)
(***************************************************************************)
\* the RPC has been issued to the plugin
Issued(rpc) == \E i \in DOMAIN rpcs : rpcs[i] = rpc

\* C11: when the merged parameters violate the schema, no Execute RPC is
\* issued to the plugin, and ExecutePlugin returns a schema error.
C11_HostValidates ==
    (pstep = "merged" /\ ~Acceptable(info, params))
    => /\ ~Issued("Execute")
       /\ cpc = "done" => cret = "SchemaError"

\* the callbacks of one kind that the sink has received
Callbacks(kind) == {i \in DOMAIN sinkLog : sinkLog[i].cb = kind}

\* C12: when the only frame of the Execute stream is the plugin's
\* INVALID_PARAMETERS Error frame, the host sink receives one OnError and no
\* OnOutput, and the summary reported for the run has success = false.
C12_PluginRejection ==
    (summary.issued /\ stream = <<InvalidParameters>> /\ recvd = 1)
    => /\ Cardinality(Callbacks("OnError")) = 1
       /\ Callbacks("OnOutput") = {}
       /\ ~summary.success

\* C15: the ReportExecutionSummary request is issued only after the Execute
\* call has returned, once, and a run whose Execute call returned has issued
\* it by the time it ends, whether Execute failed or not; its success
\* argument is true exactly when Execute returned no error.
C15_SummaryAfterExecute ==
    /\ \A i \in DOMAIN rpcs :
         rpcs[i] = "ReportExecutionSummary"
         => /\ execPc = "done"
            /\ \E j \in 1..(i - 1) : rpcs[j] = "Execute"
            /\ \A j \in DOMAIN rpcs : rpcs[j] = rpcs[i] => j = i
    /\ summary.issued <=> Issued("ReportExecutionSummary")
    /\ summary.issued => (summary.success <=> execErr = "nil")
    /\ (cpc = "done" /\ Issued("Execute")) => summary.issued

C15_Witness ==
    /\ cpc = "done"
    /\ summary.issued
    /\ ~summary.success
    /\ execErr = "ReceiveError"

\* C16: a run whose Execute call returned an error has reported a summary
\* with success = false; it returns nil when ctx.Err() is Canceled, and the
\* Execute error wrapped with the plugin's name otherwise.
C16_CancelPolicy ==
    (cpc = "done" /\ Issued("Execute") /\ execErr # "nil")
    => /\ summary.issued
       /\ ~summary.success
       /\ IF cctx = "Canceled"
          THEN cret = "nil"
          ELSE cret = "ExecutionFailed"

C16_Witness ==
    /\ cpc = "done"
    /\ cctx = "Canceled"
    /\ execErr # "nil"
    /\ cret = "nil"
    /\ summary.issued
    /\ ~summary.success

(***************************************************************************)
(* Server.Execute: the server skeleton's Execute handler (server.go:52-89) *)
(***************************************************************************)
\* server.go:76-83  the frame the skeleton sends for an error of Impl.Execute
ExecutionError ==
    [variant |-> "Error", Code |-> "EXECUTION_ERROR", Message |-> "m",
     Details |-> ""]

\* a call to s.Impl and the error it returned ("pending" until it returns)
ImplCall(fn, err) == [fn |-> fn, err |-> err]

\* a stream that has failed stays failed
SendOutcomes == IF sendFailed THEN {FALSE} ELSE BOOLEAN

\* stream.Send(frame), made by the skeleton or by the stream's outputHandler
Send(frame, by, ok) ==
    IF ok
    THEN /\ sent' = Append(sent, [frame |-> frame, by |-> by])
         /\ sendFailed' = sendFailed
    ELSE /\ sent' = sent
         /\ sendFailed' = TRUE

ValidationFailedNever(err) == FALSE

\* server.go:58  if err := s.Impl.ValidateParameters(req.Params); err != nil
ValidationFailed(err) == err # "nil"

\* server.go:52-73  the handler up to the call of s.Impl.Execute
ServerExecute ==
    /\ sPc = "idle"
    /\ \E err \in {"nil", "invalid"}, ok \in SendOutcomes :
         IF ValidationFailed(err)
         THEN /\ implCalls' = <<ImplCall("ValidateParameters", err)>>
              /\ Send(InvalidParameters, "skeleton", ok)
              /\ sRet' = IF ok THEN "nil" ELSE "sendError"
              /\ sPc' = "done"
         ELSE /\ implCalls' = <<ImplCall("ValidateParameters", err),
                                ImplCall("Execute", "pending")>>
              /\ sPc' = "impl"
              /\ UNCHANGED <<sent, sendFailed, sRet>>
    /\ UNCHANGED onErrRet
    /\ UNCHANGED sSummary
    /\ UNCHANGED <<supVars, execVars, paramVars, coordVars, clientVars, configVars,
                 skeletonVars, argvVars>>

\* s.Impl.Execute is running and may call the handler once more
ImplRunning == sPc = "impl" /\ Len(sent) < MaxFrames

\* server.go:105-111  outputHandler.OnOutput, called by s.Impl.Execute
HandlerOnOutput ==
    /\ ImplRunning
    /\ \E frame \in OutputFrames, ok \in SendOutcomes : Send(frame, "sink", ok)
    /\ UNCHANGED <<sPc, implCalls, sRet, onErrRet>>
    /\ UNCHANGED sSummary
    /\ UNCHANGED <<supVars, execVars, paramVars, coordVars, clientVars, configVars,
                 skeletonVars, argvVars>>

\* server.go:113-124  outputHandler.OnProgress, called by s.Impl.Execute
HandlerOnProgress ==
    /\ ImplRunning
    /\ \E frame \in ProgressFrames, ok \in SendOutcomes : Send(frame, "sink", ok)
    /\ UNCHANGED <<sPc, implCalls, sRet, onErrRet>>
    /\ UNCHANGED sSummary
    /\ UNCHANGED <<supVars, execVars, paramVars, coordVars, clientVars, configVars,
                 skeletonVars, argvVars>>

\* server.go:126-140  outputHandler.OnError, called by s.Impl.Execute
HandlerOnError ==
    /\ ImplRunning
    /\ \E frame \in ErrorFrames, ok \in SendOutcomes :
         /\ Send(frame, "sink", ok)
         /\ onErrRet' = IF ok THEN "handledError" ELSE "sendError"
    /\ UNCHANGED <<sPc, implCalls, sRet>>
    /\ UNCHANGED sSummary
    /\ UNCHANGED <<supVars, execVars, paramVars, coordVars, clientVars, configVars,
                 skeletonVars, argvVars>>

\* what s.Impl.Execute may return: nil, the error OnError gave it, or another
ImplReturns ==
    {"nil", "otherError"} \cup (IF onErrRet = "none" THEN {} ELSE {onErrRet})

IsHandledNever(err) == FALSE

\* server.go:75  _, ok := err.(*handledError)
IsHandled(err) == err = "handledError"

\* server.go:73-88  s.Impl.Execute returns and the handler ends
ImplReturn ==
    /\ sPc = "impl"
    /\ \E err \in ImplReturns, ok \in SendOutcomes :
         /\ implCalls' = [implCalls EXCEPT ![2].err = err]
         /\ IF err # "nil"
            THEN IF ~IsHandled(err)
                 THEN /\ Send(ExecutionError, "skeleton", ok)
                      /\ sRet' = IF ok THEN "nil" ELSE "sendError"
                 ELSE /\ sRet' = err
                      /\ UNCHANGED <<sent, sendFailed>>
            ELSE /\ sRet' = "nil"
                 /\ UNCHANGED <<sent, sendFailed>>
    /\ sPc' = "done"
    /\ UNCHANGED onErrRet
    /\ UNCHANGED sSummary
    /\ UNCHANGED <<supVars, execVars, paramVars, coordVars, clientVars, configVars,
                 skeletonVars, argvVars>>

\* a Go error value: nil, or an error with a message
NilError == [nil |-> TRUE, msg |-> ""]

\* fmt.Errorf(msg), errors.New(msg): never nil, whatever the message
Errorf(msg) == [nil |-> FALSE, msg |-> msg]

\* the error argument of a summary
SummaryErrors == {NilError, Errorf(""), Errorf("boom")}

\* part_006:231-234  errStr: "" for nil, err.Error() otherwise
ErrStr(err) == IF err.nil THEN "" ELSE err.msg

\* part_006:235-243  the SummaryRequest
SummaryRequest(name, success, err) ==
    [rpc |-> "ReportExecutionSummary", PluginName |-> name,
     Success |-> success, Error |-> ErrStr(err)]

\* the SummaryRequests the host may send
SummaryRequests ==
    { SummaryRequest(name, success, err) :
        name \in Names \cup {""}, success \in BOOLEAN, err \in SummaryErrors }

\* server.go:148  the error handed to the implementation: fmt.Errorf(req.Error)
ToError(str) == Errorf(str)

\* server.go:143-171  the ReportExecutionSummary handler: the request's
\* fields are handed to s.Impl.ReportExecutionSummary; its error ends the
\* call, its summary is turned into the response (an implementation reports
\* the error it was given, or none)
ServerReportExecutionSummary ==
    /\ ~sSummary.called
    /\ \E req \in SummaryRequests, implErr \in {"nil", "otherError"},
          echo \in BOOLEAN :
         LET given == ToError(req.Error)
             reported == IF echo THEN given ELSE NilError
         IN  sSummary' =
               [called |-> TRUE, req |-> req, given |-> given,
                err |-> implErr,
                resp |-> IF implErr # "nil" THEN "none" ELSE ErrStr(reported)]
    /\ UNCHANGED <<sPc, sent, implCalls, sRet, onErrRet, sendFailed>>
    /\ UNCHANGED <<supVars, execVars, paramVars, coordVars, clientVars, configVars,
                 skeletonVars, argvVars>>

ServerNext ==
    \/ ServerExecute
    \/ HandlerOnOutput
    \/ HandlerOnProgress
    \/ HandlerOnError
    \/ ImplReturn
    \/ ServerReportExecutionSummary

SpecServer == Init /\ [][ServerNext]_vars

(***************************************************************************)
(* Properties of Server.Execute                                            *)
(***************************************************************************)
\* the frames the skeleton itself put on the stream
BySkeleton == {i \in DOMAIN sent : sent[i].by = "skeleton"}

\* C13: ValidateParameters is the first call the handler makes to the
\* implementation, before any frame is sent; when it fails, Impl.Execute is
\* never invoked and no frame other than the skeleton's one Error frame with
\* code INVALID_PARAMETERS is sent, and with the stream intact that frame is
\* sent and the handler returns nil.
C13_ValidateFirst ==
    /\ sPc = "idle" => (implCalls = <<>> /\ sent = <<>>)
    /\ sPc # "idle" => implCalls[1].fn = "ValidateParameters"
    /\ (sPc # "idle" /\ implCalls[1].err # "nil")
       => /\ sPc = "done"
          /\ Len(implCalls) = 1
          /\ \A i \in DOMAIN sent :
               /\ i = 1
               /\ sent[i].by = "skeleton"
               /\ sent[i].frame.variant = "Error"
               /\ sent[i].frame.Code = "INVALID_PARAMETERS"
          /\ ~sendFailed => (Len(sent) = 1 /\ sRet = "nil")

C13_Witness ==
    /\ sPc = "done"
    /\ implCalls = <<ImplCall("ValidateParameters", "invalid")>>
    /\ Len(sent) = 1
    /\ sent[1].frame.Code = "INVALID_PARAMETERS"
    /\ sRet = "nil"

\* C14: when Impl.Execute returns the error the stream handler's OnError
\* gave it, the skeleton adds no frame, so the Error frames of the stream
\* are those sent through OnError; when it returns another error, the
\* skeleton sends one Error frame with code EXECUTION_ERROR as the last
\* frame of the stream (stream intact); when it returns nil, the skeleton
\* sends nothing.
C14_ExecutionError ==
    (sPc = "done" /\ Len(implCalls) = 2)
    => LET err == implCalls[2].err IN
       /\ err = "handledError" => BySkeleton = {}
       /\ err = "nil" => BySkeleton = {}
       /\ (err \notin {"nil", "handledError"} /\ ~sendFailed)
          => /\ BySkeleton = {Len(sent)}
             /\ sent[Len(sent)].frame.variant = "Error"
             /\ sent[Len(sent)].frame.Code = "EXECUTION_ERROR"
       /\ \A i \in DOMAIN sent :
            (/\ sent[i].frame.variant = "Error"
             /\ sent[i].frame.Code = "EXECUTION_ERROR") => i = Len(sent)

C14_Witness ==
    /\ sPc = "done"
    /\ Len(implCalls) = 2
    /\ implCalls[2].err = "handledError"
    /\ Len(sent) = 1
    /\ sent[1].frame.variant = "Error"
    /\ sent[1].by = "sink"

(***************************************************************************)
(* Properties of StopPlugin and of remote plugins                          *)
(***************************************************************************)
\* C18: StopPlugin for a name in the map closes the proxy, then kills the
\* process when the plugin is local, then deletes the entry, and returns nil
\* even when Close or Kill returned an error; for a name not in the map it
\* returns the "not running" error and changes nothing, as a second
\* StopPlugin after a successful one does.
C18_StopPlugin ==
    [][\A name \in Names :
            StopPlugin(name)
            => IF plugins[name] = NoHandle
               THEN /\ ret' = Return("StopPlugin", "NotRunning")
                    /\ UNCHANGED <<plugins, managed, nextH, procs, open,
                                   restartSpawns, mon, ctxDone, mu, call>>
               ELSE LET h == plugins[name]
                        local == managed[h].Cmd # NilRef
                    IN /\ ret'.op = "StopPlugin"
                       /\ ret'.err = "nil"
                       /\ [i \in DOMAIN ret'.did |-> ret'.did[i].step]
                            = IF local THEN <<"Close", "Kill", "delete">>
                                       ELSE <<"Close", "delete">>
                       /\ managed[h].Client \notin open'[h]
                       /\ local => ~procs'[h].cmd
                       /\ ~local => procs' = procs
                       /\ plugins' = [plugins EXCEPT ![name] = NoHandle]]_vars

C18_Witness ==
    /\ ret.op = "StopPlugin"
    /\ ret.err = "nil"
    /\ Len(ret.did) = 3
    /\ ret.did[1].failed
    /\ ret.did[2].failed
    /\ \A name \in Names : plugins[name] = NoHandle

\* C19: StartPlugin for a remote descriptor ends in its one step, with nil or
\* with the connect error of its one dial, and spawns no process and starts
\* no monitor; a remote ManagedPlugin has no process, no monitor and no
\* restart, ever; StopPlugin and StopAll close its proxy and kill nothing.
C19_Remote ==
    /\ [](\A h \in Handles :
            managed[h].Type = "remote"
            => /\ managed[h].Cmd = NilRef
               /\ procs[h] = NoProcs
               /\ mon[h] = NoMon
               /\ managed[h].RestartCnt = 0
               /\ restartSpawns[h] = 0)
    /\ [][\A name \in Names, cfg \in Configs :
            (cfg.Type = "remote" /\ plugins[name] = NoHandle
             /\ StartPlugin(name, cfg))
            => /\ ret'.op = "StartPlugin"
               /\ ret'.err \in {"nil", "ConnectError"}
               /\ ret'.err = "nil" <=> plugins'[name] # NoHandle
               /\ UNCHANGED <<procs, mon, call, mu, restartSpawns>>]_vars
    /\ [][\A name \in Names :
            (/\ plugins[name] # NoHandle
             /\ managed[plugins[name]].Type = "remote"
             /\ (StopPlugin(name) \/ StopAll))
            => /\ open'[plugins[name]] = {}
               /\ procs'[plugins[name]] = procs[plugins[name]]
               /\ StopPlugin(name) => procs' = procs
               /\ plugins'[name] = NoHandle]_vars

C19_Witness ==
    /\ ret.op = "StopAll"
    /\ \E h \in Handles : managed[h].Type = "remote" /\ open[h] = {}

\* C26: the launch parameters of a ManagedPlugin change only in a step of a
\* task that holds pm.mu for writing: the caller's task, whose manager calls
\* take and release the lock within one step, changes them only while it
\* holds the lock.
C26_MutationsLocked ==
    [][(launchParams # NilRef /\ Deref(launchParams)' # Deref(launchParams))
       => (mu = MuCaller \/ mu' = MuCaller)]_vars

(***************************************************************************)
(* Properties of a run whose plugin process dies                           *)
(***************************************************************************)
\* the result of a run decided by the Execute error and the context alone
PolicyResult ==
    IF execErr = "nil" \/ cctx = "Canceled" THEN "nil" ELSE "ExecutionFailed"

\* C25: whenever the plugin's process dies during a run, ExecutePlugin does
\* not panic, and the death shows only in the errors of the RPCs issued
\* after it: a process dead before GetInfo makes the run return the GetInfo
\* error; one that dies before or during Execute makes Execute return an
\* error, the summary report success = false and the run end by the error
\* policy; one that dies after Execute changes nothing in the result, the
\* failed summary call being only logged.
C25_CrashIsolation ==
    /\ cret # "panic"
    /\ (child.diedAt = "GetInfo" /\ cpc # "getinfo")
       => cpc = "done" /\ cret = "GetInfoFailed"
    /\ (child.diedAt = "Execute" /\ cpc \in {"report", "finish", "done"})
       => /\ execErr # "nil"
          /\ summary.issued => ~summary.success
          /\ cpc = "done" => summary.issued /\ cret = PolicyResult
    /\ (child.diedAt \in {"ReportExecutionSummary", "none"} /\ cpc = "done")
       => summary.issued /\ cret = PolicyResult

\* the process died after a successful Execute, the summary call failed on
\* the dead plugin, and the run returned nil
C25_Witness ==
    /\ cpc = "done"
    /\ child.diedAt = "ReportExecutionSummary"
    /\ execErr = "nil"
    /\ summary.issued
    /\ cret = "nil"

(***************************************************************************)
(* Properties of the launch parameters                                     *)
(***************************************************************************)
\* C20: from StartPlugin until the handle is dropped, the parameters that
\* the ManagedPlugin holds are those the argv of the original spawn was
\* built from, and every restart builds its argv from these same parameters.
C20_LaunchParams ==
    /\ launchParams # NilRef => Deref(launchParams) = spawnArgs
    /\ \A i \in DOMAIN restartArgs : restartArgs[i] = spawnArgs

\* C27: a SummaryRequest whose error field is empty reaches the
\* implementation's ReportExecutionSummary with a nil error.
C27_EmptyErrorIsNil ==
    (sSummary.called /\ sSummary.req.Error = "") => sSummary.given = NilError

(***************************************************************************)
(* The client proxy: grpc.Client                                           *)
(***************************************************************************)
\* calls made on the stub c.Client in one behaviour
MaxRPCs == 3

\* the parameter specs a plugin publishes
ProtoSpecs ==
    { [k \in {} |-> ""],
      [k \in {"message"} |->
         [Name |-> "message", Description |-> "the greeting", Required |-> TRUE,
          DefaultValue |-> "", Type |-> "string", AllowedValues |-> <<>>]] }

\* the proto.InfoResponse values the plugin may answer; a restarted or
\* upgraded plugin may answer another one than before
InfoResponses ==
    { [Name |-> "hello", Version |-> v, Description |-> "says hello",
       ParameterSpecs |-> ps] : v \in {"1.0", "1.1"}, ps \in ProtoSpecs }

\* part_006:131-148: the PluginInfo built from the response, field by field
ToPluginInfo(resp) ==
    [Name |-> resp.Name,
     Version |-> resp.Version,
     Description |-> resp.Description,
     ParameterSchema |->
        [n \in DOMAIN resp.ParameterSpecs |->
           [Name |-> resp.ParameterSpecs[n].Name,
            Description |-> resp.ParameterSpecs[n].Description,
            Required |-> resp.ParameterSpecs[n].Required,
            DefaultValue |-> resp.ParameterSpecs[n].DefaultValue,
            Type |-> resp.ParameterSpecs[n].Type,
            AllowedValues |-> resp.ParameterSpecs[n].AllowedValues]]]

\* a unary call on the stub: it fails on a closed connection and may fail
\* on an open one (plugin gone, deadline, ...)
StubOutcomes == IF c.Conn = "open" THEN {"ok", "error"} ELSE {"error"}

CliReturn(op, inf, err, rpc) == [op |-> op, info |-> inf, err |-> err, rpc |-> rpc]

CachedNever(inf) == FALSE

\* part_006:122  if c.Info != nil
Cached(inf) == inf # NoInfo

\* part_006:121-151  Client.GetInfo
ClientGetInfo ==
    /\ UNCHANGED <<supVars, execVars, paramVars, coordVars, serverVars, configVars,
                 skeletonVars, argvVars>>
    /\ IF Cached(c.Info)
       THEN /\ cliRet' = CliReturn("GetInfo", c.Info, "nil", FALSE)
            /\ UNCHANGED <<c, wire>>
       ELSE /\ Len(wire) < MaxRPCs
            /\ wire' = Append(wire, [rpc |-> "GetInfo"])
            /\ \E outcome \in StubOutcomes :
                 IF outcome = "error"
                 THEN /\ cliRet' = CliReturn("GetInfo", NoInfo, "RpcError", TRUE)
                      /\ c' = c
                 ELSE \E resp \in InfoResponses :
                        /\ c' = [c EXCEPT !.Info = ToPluginInfo(resp)]
                        /\ cliRet' = CliReturn("GetInfo", ToPluginInfo(resp), "nil", TRUE)

\* part_006:229-264  Client.ReportExecutionSummary
ClientReportExecutionSummary ==
    /\ UNCHANGED <<supVars, execVars, paramVars, coordVars, serverVars, configVars,
                 skeletonVars, argvVars>>
    /\ Len(wire) < MaxRPCs
    /\ \E success \in BOOLEAN, err \in SummaryErrors :
         wire' = Append(wire, SummaryRequest(c.Name, success, err))
    /\ \E outcome \in StubOutcomes :
         cliRet' = CliReturn("ReportExecutionSummary", NoInfo,
                             IF outcome = "error" THEN "RpcError" ELSE "nil", TRUE)
    /\ c' = c

\* grpc.ClientConn.Close: the first call closes the connection; a call on a
\* closed connection returns ErrClientConnClosing
ConnClose(conn) == IF conn = "open" THEN "nil" ELSE "ErrClientConnClosing"

\* part_006:266-269  Client.Close: return c.Conn.Close()
ClientClose ==
    /\ UNCHANGED <<supVars, execVars, paramVars, coordVars, serverVars, configVars,
                 skeletonVars, argvVars>>
    /\ cliRet' = CliReturn("Close", NoInfo, ConnClose(c.Conn), FALSE)
    /\ c' = [c EXCEPT !.Conn = "closed"]
    /\ wire' = wire

\* manager.go:112  grpcClient.Name = name, by StartPlugin on the client it
\* has just dialled
ClientSetName(name) ==
    /\ UNCHANGED <<supVars, execVars, paramVars, coordVars, serverVars, configVars,
                 skeletonVars, argvVars>>
    /\ c.Name = ""
    /\ wire = <<>>
    /\ c.Conn = "open"
    /\ c' = [c EXCEPT !.Name = name]
    /\ UNCHANGED <<wire, cliRet>>

ClientNext ==
    \/ ClientGetInfo
    \/ ClientReportExecutionSummary
    \/ ClientClose
    \/ \E name \in Names : ClientSetName(name)

SpecClient == Init /\ [][ClientNext]_vars

(***************************************************************************)
(* Properties of the client proxy                                          *)
(***************************************************************************)
\* C21: once a GetInfo has succeeded the proxy keeps that PluginInfo, and
\* every later GetInfo returns it with no error and without a call on the
\* stub; a GetInfo on a proxy that has no PluginInfo calls the stub, and when
\* that call fails it returns the error and still has no PluginInfo.
C21_GetInfoMemoizes ==
    /\ [][c.Info # NoInfo => c'.Info = c.Info]_vars
    /\ [][ClientGetInfo =>
            /\ c.Info # NoInfo =>
                 /\ wire' = wire
                 /\ cliRet'.err = "nil"
                 /\ cliRet'.info = c.Info
            /\ c.Info = NoInfo =>
                 /\ wire' = Append(wire, [rpc |-> "GetInfo"])
                 /\ cliRet'.err # "nil" => c'.Info = NoInfo /\ cliRet'.info = NoInfo
                 /\ cliRet'.err = "nil" => c'.Info # NoInfo /\ cliRet'.info = c'.Info]_vars

\* a GetInfo failed, a later one succeeded, and the latest one returned the
\* PluginInfo without a call on the stub
C21_Witness ==
    /\ cliRet.op = "GetInfo"
    /\ ~cliRet.rpc
    /\ cliRet.info = c.Info
    /\ Len(wire) >= 2
    /\ \A i \in DOMAIN wire : wire[i].rpc = "GetInfo"

\* C22: closing a proxy that is already closed returns no error: when the
\* supervisor stops a plugin whose proxy a restart has closed before, the
\* Close of StopPlugin does not fail.
C22_CloseIdempotent ==
    \A i \in DOMAIN ret.did :
        ret.did[i].step = "Close" => ~ret.did[i].failed

(***************************************************************************)
(* The catalog: PluginConfig.Validate and LoadConfig                       *)
(***************************************************************************)
\* the names of a catalog's entries
CatalogNames == {"a", "b"}

\* paths are sequences of components, an absolute one starting with "/";
\* the empty sequence is the empty string
Paths == { <<>>, <<"bin", "hello">>, <<"/", "opt", "hello">> }

\* command templates are sequences of words
Commands == { <<>>, <<"run">>, <<"run", "--port", "{port}">> }

\* the descriptors a catalog file can hold; a field left out of the JSON is
\* the zero value of its type
Descriptors ==
    [Type : {"", "binary", "command", "remote", "wasm"},
     Path : Paths,
     Port : {-1, 0, 50051},
     Command : Commands,
     Address : {"", "host:50051"},
     WorkingDir : {<<>>}]

\* strings.Contains(s, word)
Contains(s, word) == \E i \in DOMAIN s : s[i] = word

InvalidPortNegative(port) == port < 0

\* config_test.go:192  if p.Port <= 0
InvalidPort(port) == port <= 0

\* config_test.go:186-213  PluginConfig.Validate: the error, or "nil"
Validate(p) ==
    LET first ==
          CASE p.Type \in {"binary", "command"} ->
                 IF p.Path = <<>> THEN "PathRequired"
                 ELSE IF InvalidPort(p.Port) THEN "InvalidPort"
                 ELSE "nil"
            [] p.Type = "remote" ->
                 IF p.Address = "" THEN "AddressRequired" ELSE "nil"
            [] OTHER -> "UnsupportedType"
    IN  IF first # "nil" THEN first
        ELSE IF p.Type = "command" /\ p.Command = <<>> THEN "CommandRequired"
        ELSE IF p.Type = "command" /\ ~Contains(p.Command, "{port}")
             THEN "NoPortPlaceholder"
        ELSE "nil"

\* os.Getwd()
WorkspaceRoot == <<"/", "work">>

\* filepath.IsAbs, filepath.Join, filepath.Dir
IsAbs(path) == path # <<>> /\ path[1] = "/"
Join(root, path) == root \o path
Dir(path) == IF Len(path) > 1 THEN SubSeq(path, 1, Len(path) - 1) ELSE path

\* part_003:90-92  a path that is not absolute, the empty one included, is
\* joined to the workspace root
ResolvePath(path) == IF ~IsAbs(path) THEN Join(WorkspaceRoot, path) ELSE path

\* part_003:88-110  what the load makes of a descriptor before validating it
Normalize(p) ==
    LET path == ResolvePath(p.Path)
        wd == IF p.WorkingDir # <<>> /\ ~IsAbs(p.WorkingDir)
              THEN Join(WorkspaceRoot, p.WorkingDir) ELSE p.WorkingDir
    IN  [p EXCEPT !.Path = path,
                  !.Type = IF p.Type = "" THEN "binary" ELSE p.Type,
                  !.WorkingDir = IF wd = <<>> THEN Dir(path) ELSE wd]

\* part_003:70-120  LoadConfig: each descriptor is normalized and validated;
\* the first that fails (in the map's iteration order) ends the load with
\* its error and no AppConfig
LoadConfig ==
    /\ UNCHANGED <<supVars, execVars, paramVars, coordVars, serverVars, clientVars,
                 skeletonVars, argvVars>>
    /\ config = NoConfig
    /\ LET bad == {n \in DOMAIN file : Validate(Normalize(file[n])) # "nil"}
       IN  IF bad = {}
           THEN config' = [err |-> "nil", name |-> "",
                           Plugins |-> [n \in DOMAIN file |-> Normalize(file[n])]]
           ELSE \E n \in bad :
                  config' = [err |-> Validate(Normalize(file[n])), name |-> n,
                             Plugins |-> [k \in {} |-> ""]]
    /\ UNCHANGED <<file, checked>>

\* a call of Validate on a descriptor as the file has it
ValidateWritten(n) ==
    /\ UNCHANGED <<supVars, execVars, paramVars, coordVars, serverVars, clientVars,
                 skeletonVars, argvVars>>
    /\ n \in DOMAIN file
    /\ checked' = [called |-> TRUE, p |-> file[n], err |-> Validate(file[n])]
    /\ UNCHANGED <<file, config>>

\* a call of Validate on a descriptor of the loaded catalog (part_002:50)
ValidateLoaded(n) ==
    /\ UNCHANGED <<supVars, execVars, paramVars, coordVars, serverVars, clientVars,
                 skeletonVars, argvVars>>
    /\ n \in DOMAIN config.Plugins
    /\ checked' = [called |-> TRUE, p |-> config.Plugins[n],
                   err |-> Validate(config.Plugins[n])]
    /\ UNCHANGED <<file, config>>

\* the catalogs: every map from some of the names to descriptors
ConfigInitial ==
    /\ SupInit /\ ExecInit /\ ParamsIdle /\ CoordInit /\ ServerInit /\ ClientInit /\ SkeletonInit /\ ArgvIdle
    /\ \E D \in SUBSET CatalogNames : file \in [D -> Descriptors]
    /\ config = NoConfig
    /\ checked = NoCheck

ConfigNext ==
    \/ LoadConfig
    \/ \E n \in CatalogNames : ValidateWritten(n)
    \/ \E n \in CatalogNames : ValidateLoaded(n)

SpecConfig == ConfigInitial /\ [][ConfigNext]_vars

(***************************************************************************)
(* Properties of the catalog                                               *)
(***************************************************************************)
\* the load invariants of a descriptor
Local(p) == p.Type \in {"binary", "command"}

WellFormed(p) ==
    /\ p.Type \in {"binary", "command", "remote"}
    /\ Local(p) => p.Path # <<>> /\ p.Port > 0
    /\ p.Type = "command" =>
         p.Command # <<>> /\ \E i \in DOMAIN p.Command : p.Command[i] = "{port}"
    /\ p.Type = "remote" => p.Address # ""

C24_LoadIffValid ==
    config.err # "none" =>
      /\ config.err = "nil" <=> \A n \in DOMAIN file : Validate(file[n]) = "nil"
      /\ config.err # "nil" => DOMAIN config.Plugins = {}
      /\ \A n \in DOMAIN config.Plugins : Validate(config.Plugins[n]) = "nil"

\* C29: whenever ExecutePlugin has returned after it created the supervisor
\* (start failure, get_info failure, Execute error, cancellation, success or
\* panic), the supervisor holds no plugin and no process that the supervisor
\* spawned for the run is still running.
C29_StopAllOnReturn ==
    (cpc = "done" /\ cret \notin {"ConfigError", "InvalidConfig"})
    => /\ launchParams = NilRef
       /\ child.cmd # "up"
       /\ ~child.orphan

\* C30: the proxy a successful GetPlugin(name) returns puts name into the
\* plugin_name of every SummaryRequest it builds, whatever the supervisor has
\* done to the entry before, a restart that replaced the proxy included.
C30_SummaryCarriesName ==
    (ret.op = "GetPlugin" /\ ret.err = "nil")
    => \A success \in BOOLEAN, err \in SummaryErrors :
         SummaryRequest(ret.client.Name, success, err).PluginName = ret.name

(***************************************************************************)
(* The plugins' own parameter validation (hello, addition, remote-test)    *)
(***************************************************************************)
\* parameter names and values are sequences of tokens, so that a prefix and
\* the characters of a number can be looked at; <<>> is the empty string
Key(prefix, rest) == <<prefix, rest>>
Message == <<"message">>
Language == <<"language">>

\* the values a caller may give
ParamValues == { <<>>, <<"1">>, <<"1", ".", "5">>, <<"x">>, <<"en">> }

PluginNames == {"hello", "addition", "remote-test-plugin"}

SchemaEntry(required, default, allowed) ==
    [Required |-> required, DefaultValue |-> default, AllowedValues |-> allowed]

\* the ParameterSchema each plugin publishes through GetInfo
\* (part_001:24-47, part_000:197-236, part_000:16-29)
\* (the optional num4 and num5 of the addition plugin are as num3)
PluginSchema(plugin) ==
    CASE plugin = "hello" ->
           (Message :> SchemaEntry(FALSE, "World", <<>>)) @@
           (Language :> SchemaEntry(FALSE, "en",
                                    << <<"en">>, <<"es">>, <<"fr">>, <<"de">> >>))
      [] plugin = "addition" ->
           [k \in {Key("num", "1"), Key("num", "2"), Key("num", "3")} |->
              SchemaEntry(k \in {Key("num", "1"), Key("num", "2")}, "", <<>>)]
      [] plugin = "remote-test-plugin" ->
           (Message :> SchemaEntry(TRUE, "", <<>>))

\* the parameter names a caller may give to each plugin
PluginKeys(plugin) ==
    IF plugin = "addition"
    THEN {Key("num", "1"), Key("num", "2"), Key("num", "3"), Key("num", "ber")}
    ELSE {Message, Language}

\* strings.HasPrefix(key, prefix)
HasPrefix(key, prefix) == key # <<>> /\ key[1] = prefix

\* strconv.ParseFloat(value, 64) succeeds: digits with at most one point
\* (of the values above; signs and exponents do not occur in them)
ParseFloatOk(value) ==
    /\ \A i \in DOMAIN value : value[i] \in {"1", "5", "."}
    /\ \E i \in DOMAIN value : value[i] # "."
    /\ \A i, j \in DOMAIN value : (value[i] = "." /\ value[j] = ".") => i = j

\* part_001:50-64  HelloPlugin.validateParameters
HelloValidate(p) ==
    IF Language \in DOMAIN p
       /\ p[Language] \notin { <<"en">>, <<"es">>, <<"fr">>, <<"de">> }
    THEN "UnsupportedLanguage"
    ELSE "nil"

\* part_000:239-258  AdditionPlugin.validateParameters
AdditionValidate(p) ==
    IF Key("num", "1") \notin DOMAIN p THEN "MissingRequired"
    ELSE IF Key("num", "2") \notin DOMAIN p THEN "MissingRequired"
    ELSE IF \E key \in DOMAIN p : HasPrefix(key, "num") /\ ~ParseFloatOk(p[key])
         THEN "InvalidNumber"
    ELSE "nil"

\* part_000:32-36, 55-58  RemoteTestPlugin: ValidateParameters accepts every
\* map, and Execute begins by reporting MISSING_PARAM when message is absent
RemoteTestValidate(p) ==
    IF Message \notin DOMAIN p THEN "MissingParam" ELSE "nil"

\* the check a plugin applies to the parameters at the start of Execute
PluginValidate ==
    /\ pverdict.plugin # ""
    /\ pverdict' =
         [pverdict EXCEPT !.err =
            CASE pverdict.plugin = "hello" -> HelloValidate(params)
              [] pverdict.plugin = "addition" -> AdditionValidate(params)
              [] OTHER -> RemoteTestValidate(params)]
    /\ UNCHANGED <<info, defaults, raw, params, pstep, verdict>>
    /\ UNCHANGED <<supVars, execVars, coordVars, serverVars, clientVars, configVars,
                 skeletonVars, argvVars>>

\* one of the three plugins, its schema, and the parameters of a request
PluginsInitial ==
    /\ SupInit /\ ExecInit /\ CoordInit /\ ServerInit /\ ClientInit /\ SkeletonInit /\ ArgvIdle /\ ConfigIdle
    /\ \E plugin \in PluginNames :
         /\ pverdict = [plugin |-> plugin, err |-> "none"]
         /\ info = PluginSchema(plugin)
         /\ params \in Maps(PluginKeys(plugin), ParamValues)
    /\ defaults = EmptyMap
    /\ raw = params
    /\ pstep = "raw"
    /\ verdict = NoVerdict

PluginsNext ==
    \/ ValidateParameters
    \/ PluginValidate

SpecPlugins == PluginsInitial /\ [][PluginsNext]_vars

\* C28: for each of the three plugins, the host's ValidateParameters, run
\* with the plugin's published schema, accepts a parameter map exactly when
\* the plugin's own check at the start of Execute accepts it.
C28_SameRules ==
    (verdict.err \in {"nil", "MissingRequired", "InvalidValue"}
     /\ pverdict.err # "none")
    => (verdict.err = "nil" <=> pverdict.err = "nil")

(***************************************************************************)
(* A plugin's server: StartPluginServer, RunGRPCServer, the Execute        *)
(* handlers' wait group, the liveness probe                                *)
(***************************************************************************)
\* part_007:34-38  StartHealthServer registers the health service with the
\* status SERVING; part_007:14-30 RunGRPCServer calls it, part_009:243-273
\* StartPluginServer registers the plugin service only
RegistersHealth(via) == via = "RunGRPCServer"

\* the server is started by one of the two entry points
ServerStart(via) ==
    /\ srv.via = "none"
    /\ srv' = [srv EXCEPT !.via = via,
                          !.health = RegistersHealth(via),
                          !.state = "serving",
                          !.stopper = IF via = "StartPluginServer"
                                      THEN "recv" ELSE "none"]
    /\ UNCHANGED calls
    /\ UNCHANGED <<supVars, execVars, paramVars, coordVars, serverVars,
                   clientVars, configVars, argvVars>>

\* server.go:52-53  a client's Execute call reaches the handler; a server in
\* GracefulStop accepts no new call
ExecuteEnter(s) ==
    /\ srv.state = "serving"
    /\ calls[s].pc = "idle"
    /\ calls' = [calls EXCEPT ![s] = [pc |-> "entered", pre |-> ~srv.done]]
    /\ srv' = [srv EXCEPT !.late = @ \/ srv.done]
    /\ UNCHANGED <<supVars, execVars, paramVars, coordVars, serverVars,
                   clientVars, configVars, argvVars>>

\* server.go:54  s.wg.Add(1)
ExecuteAdd(s) ==
    /\ calls[s].pc = "entered"
    /\ calls' = [calls EXCEPT ![s].pc = "running"]
    /\ srv' = [srv EXCEPT !.wg = @ + 1]
    /\ UNCHANGED <<supVars, execVars, paramVars, coordVars, serverVars,
                   clientVars, configVars, argvVars>>

\* server.go:55  the deferred s.wg.Done() and the return of the handler; the
\* Done that takes the counter to zero releases a goroutine blocked in Wait
ExecuteReturn(s) ==
    /\ calls[s].pc = "running"
    /\ calls' = [calls EXCEPT ![s] = NoExecute]
    /\ srv' = [srv EXCEPT !.wg = @ - 1,
                          !.stopper = IF @ = "wait" /\ srv.wg = 1
                                      THEN "stop" ELSE @]
    /\ UNCHANGED <<supVars, execVars, paramVars, coordVars, serverVars,
                   clientVars, configVars, argvVars>>

\* the owner of the channel StartPluginServer returned closes it: graceful
\* stop is requested
CloseDone ==
    /\ srv.via = "StartPluginServer"
    /\ ~srv.done
    /\ srv' = [srv EXCEPT !.done = TRUE]
    /\ UNCHANGED calls
    /\ UNCHANGED <<supVars, execVars, paramVars, coordVars, serverVars,
                   clientVars, configVars, argvVars>>

\* part_009:267-268  <-done, then grpcServer.wg.Wait(): it returns at once
\* when the counter is zero and blocks otherwise
StopperWait ==
    /\ srv.stopper = "recv"
    /\ srv.done
    /\ srv' = [srv EXCEPT !.stopper = IF srv.wg = 0 THEN "stop" ELSE "wait",
                          !.waited = srv.wg # 0]
    /\ UNCHANGED calls
    /\ UNCHANGED <<supVars, execVars, paramVars, coordVars, serverVars,
                   clientVars, configVars, argvVars>>

\* part_009:269  server.GracefulStop() is called: the server stops accepting
StopperGracefulStop ==
    /\ srv.stopper = "stop"
    /\ srv.state = "serving"
    /\ srv' = [srv EXCEPT !.state = "draining"]
    /\ UNCHANGED calls
    /\ UNCHANGED <<supVars, execVars, paramVars, coordVars, serverVars,
                   clientVars, configVars, argvVars>>

DrainedAlways(cs) == TRUE

\* grpc.Server.GracefulStop blocks until every pending RPC has finished
Drained(cs) == \A s \in Slots : cs[s].pc = "idle"

\* part_009:269  GracefulStop returns: the server is stopped
StopperStopped ==
    /\ srv.stopper = "stop"
    /\ srv.state = "draining"
    /\ Drained(calls)
    /\ srv' = [srv EXCEPT !.state = "stopped", !.stopper = "exit"]
    /\ UNCHANGED calls
    /\ UNCHANGED <<supVars, execVars, paramVars, coordVars, serverVars,
                   clientVars, configVars, argvVars>>

\* part_003:35-37  one healthClient.Check on a running, reachable server: the
\* health service answers SERVING; a server without it answers Unimplemented
HealthCheck ==
    /\ srv.state = "serving"
    /\ srv' = [srv EXCEPT !.check = IF srv.health THEN "SERVING"
                                    ELSE "Unimplemented"]
    /\ UNCHANGED calls
    /\ UNCHANGED <<supVars, execVars, paramVars, coordVars, serverVars,
                   clientVars, configVars, argvVars>>

SkeletonNext ==
    \/ \E via \in {"StartPluginServer", "RunGRPCServer"} : ServerStart(via)
    \/ \E s \in Slots : ExecuteEnter(s)
    \/ \E s \in Slots : ExecuteAdd(s)
    \/ \E s \in Slots : ExecuteReturn(s)
    \/ CloseDone
    \/ StopperWait
    \/ StopperGracefulStop
    \/ StopperStopped
    \/ HealthCheck

\* goroutines that can run do run, and every Execute handler returns; when
\* clients call and when the channel is closed is left open
SkeletonFairness ==
    /\ \A s \in Slots : WF_vars(ExecuteAdd(s)) /\ WF_vars(ExecuteReturn(s))
    /\ WF_vars(StopperWait)
    /\ WF_vars(StopperGracefulStop)
    /\ WF_vars(StopperStopped)

SpecSkeleton == Init /\ [][SkeletonNext]_vars /\ SkeletonFairness

(***************************************************************************)
(* Properties of a plugin's server                                         *)
(***************************************************************************)
\* an Execute call that began before the request is still running
PreRunning == \E s \in Slots : calls[s].pc # "idle" /\ calls[s].pre

\* C31 as stated: the server is never stopped while an Execute call that
\* began before the request of the graceful stop is running, and once the
\* stop is requested and those calls have returned the server is eventually
\* stopped.
C31_GracefulStop ==
    /\ [](srv.state = "stopped" => ~PreRunning)
    /\ ((srv.done /\ ~PreRunning) ~> srv.state = "stopped")

\* C31, amended: the server is never stopped while any Execute call is
\* running, and once the stop is requested the server is eventually stopped
\* unless an Execute call begins after the request.
C31_GracefulStopQuiet ==
    /\ [](srv.state = "stopped" => \A s \in Slots : calls[s].pc = "idle")
    /\ (srv.done ~> (srv.state = "stopped" \/ srv.late))

\* the stop was requested while an Execute call was running, the wait for it
\* blocked, no call began after the request, and the server is stopped
C31_Witness ==
    /\ srv.state = "stopped"
    /\ srv.waited
    /\ ~srv.late

\* C32: a Check on a running, reachable server that was started through
\* StartPluginServer or RunGRPCServer is answered SERVING.
C32_ProbeServing ==
    srv.check # "none" => srv.check = "SERVING"

(***************************************************************************)
(* PluginConfig.GetStartCommand (config_test.go:216-249)                   *)
(***************************************************************************)
\* a string is a sequence of atoms: words, the blank " " and the
\* placeholders of a command template; <<>> is the empty string

\* the descriptors, ports and parameters GetStartCommand is called with
LaunchTypes == {"binary", "command", "remote", ""}
LaunchPaths == { <<"bin/p">>, <<"my", " ", "p">> }
LaunchPorts == {8080, 50051}
Templates ==
    { <<>>,
      <<" ">>,
      <<"{args}">>,
      <<"{path}", "-port=", "{port}">>,
      <<"run", " ", "{path}", " ", " ", "-p", " ", "{port}", " ", "{args}">> }
LaunchParams ==
    UNION { [D -> { <<"1">>, <<"x", " ", "y">> }] : D \in SUBSET {"a", "b"} }

\* the orders in which a range loop may visit the keys of a map
KeyOrders(m) ==
    { o \in [1..Cardinality(DOMAIN m) -> DOMAIN m] :
        \A i, j \in DOMAIN o : i # j => o[i] # o[j] }

\* fmt.Sprintf("%d", port)
PortString(port) == <<ToString(port)>>

ArgFlagNoValue(k, v) == <<"--", k>>

\* config_test.go:220  fmt.Sprintf("--%s=%s", k, v)
ArgFlag(k, v) == <<"--", k, "=">> \o v

\* config_test.go:218-221  argSlice, in the order the map is visited
ArgSlice(args, order) == [i \in DOMAIN order |-> ArgFlag(order[i], args[order[i]])]

\* strings.Join(elems, sep)
RECURSIVE JoinStrings(_, _)
JoinStrings(elems, sep) ==
    IF elems = <<>> THEN <<>>
    ELSE IF Len(elems) = 1 THEN elems[1]
    ELSE elems[1] \o sep \o JoinStrings(Tail(elems), sep)

\* strings.ReplaceAll(str, old, new) for a placeholder old
RECURSIVE ReplaceAll(_, _, _)
ReplaceAll(str, old, new) ==
    IF str = <<>> THEN <<>>
    ELSE (IF Head(str) = old THEN new ELSE <<Head(str)>>)
         \o ReplaceAll(Tail(str), old, new)

\* strings.Fields(str): the maximal runs without a blank; cur is the run
\* being read
RECURSIVE FieldsFrom(_, _)
FieldsFrom(str, cur) ==
    IF str = <<>>
    THEN (IF cur = <<>> THEN <<>> ELSE <<cur>>)
    ELSE IF Head(str) = " "
    THEN (IF cur = <<>> THEN <<>> ELSE <<cur>>) \o FieldsFrom(Tail(str), <<>>)
    ELSE FieldsFrom(Tail(str), Append(cur, Head(str)))

Fields(str) == FieldsFrom(str, <<>>)

LaunchOk(program, argv) == [err |-> "nil", program |-> program, argv |-> argv]

LaunchError(err) == [err |-> err, program |-> <<>>, argv |-> <<>>]

\* config_test.go:216-249
StartCommand(p, port, args, order) ==
    LET argSlice == ArgSlice(args, order)
        argString == JoinStrings(argSlice, <<" ">>)
    IN
    IF p.Type = "binary"
    THEN LaunchOk(p.Path, << <<"-port">>, PortString(port) >> \o argSlice)
    ELSE IF p.Type = "command"
    THEN IF p.Command = <<>>
         THEN LaunchError("NoTemplate")
         ELSE LET cmd1 == ReplaceAll(p.Command, "{port}", PortString(port))
                  cmd2 == ReplaceAll(cmd1, "{path}", p.Path)
                  cmd3 == ReplaceAll(cmd2, "{args}", argString)
                  parts == Fields(cmd3)
              IN IF Len(parts) = 0
                 THEN LaunchError("EmptyCommand")
                 ELSE LaunchOk(parts[1], Tail(parts))
    ELSE LaunchError("UnsupportedType")

\* one call of GetStartCommand
GetStartCommand ==
    /\ ~launch.called
    /\ \E type \in LaunchTypes, path \in LaunchPaths, command \in Templates,
          port \in LaunchPorts, args \in LaunchParams :
       \E order \in KeyOrders(args) :
         LET p == [Type |-> type, Path |-> path, Command |-> command] IN
         launch' = [called |-> TRUE, p |-> p, port |-> port, args |-> args,
                    result |-> StartCommand(p, port, args, order)]
    /\ UNCHANGED flags
    /\ UNCHANGED <<supVars, execVars, paramVars, coordVars, serverVars,
                   clientVars, configVars, skeletonVars>>

LaunchNext == GetStartCommand

SpecLaunch == Init /\ [][LaunchNext]_vars

\* the string without its blanks
RECURSIVE Strip(_)
Strip(str) ==
    IF str = <<>> THEN <<>>
    ELSE (IF Head(str) = " " THEN <<>> ELSE <<Head(str)>>) \o Strip(Tail(str))

\* the strings of a sequence, one after the other
RECURSIVE Concat(_)
Concat(strs) == IF strs = <<>> THEN <<>> ELSE Head(strs) \o Concat(Tail(strs))

\* the template with every placeholder replaced by its value
Substituted(template, port, path, argString) ==
    Concat([i \in DOMAIN template |->
              CASE template[i] = "{port}" -> <<ToString(port)>>
                [] template[i] = "{path}" -> path
                [] template[i] = "{args}" -> argString
                [] OTHER -> <<template[i]>>])

\* the number of places of the string where a run without blanks begins
Runs(str) ==
    Cardinality({ i \in DOMAIN str :
                    str[i] # " " /\ (i = 1 \/ str[i - 1] = " ") })

\* C33: GetStartCommand returns, for kind binary, the path as the program
\* and "-port", the port and exactly one "--k=v" per parameter as the argv;
\* for kind command, the fields of the template with {port}, {path} and
\* {args} substituted, split at blanks, the first field being the program;
\* and an error, with no program, for an empty template, a template without
\* fields after the substitution, and every other kind.
C33_LaunchCommand ==
    launch.called =>
      LET p == launch.p
          r == launch.result
          keys == DOMAIN launch.args
      IN
      IF p.Type = "binary"
      THEN /\ r.err = "nil"
           /\ r.program = p.Path
           /\ Len(r.argv) = 2 + Cardinality(keys)
           /\ r.argv[1] = <<"-port">>
           /\ r.argv[2] = <<ToString(launch.port)>>
           /\ \A k \in keys :
                Cardinality({ i \in 3..Len(r.argv) :
                                r.argv[i] = <<"--", k, "=">> \o launch.args[k] }) = 1
      ELSE IF p.Type = "command"
      THEN \E flagOrder \in KeyOrders(launch.args) :
             LET argString ==
                   JoinStrings([i \in DOMAIN flagOrder |->
                                  <<"--", flagOrder[i], "=">>
                                  \o launch.args[flagOrder[i]]], <<" ">>)
                 sub == Substituted(p.Command, launch.port, p.Path, argString)
             IN IF p.Command = <<>> \/ Strip(sub) = <<>>
                THEN r.err # "nil" /\ r.program = <<>> /\ r.argv = <<>>
                ELSE /\ r.err = "nil"
                     /\ Concat(<<r.program>> \o r.argv) = Strip(sub)
                     /\ Len(r.argv) + 1 = Runs(sub)
                     /\ \A i \in DOMAIN r.argv :
                          /\ r.argv[i] # <<>>
                          /\ \A j \in DOMAIN r.argv[i] : r.argv[i][j] # " "
                     /\ r.program # <<>>
                     /\ \A j \in DOMAIN r.program : r.program[j] # " "
      ELSE r.err # "nil" /\ r.program = <<>> /\ r.argv = <<>>

\* a command template with all three placeholders, a path and a parameter
\* with a blank in them, and two parameters
C33_Witness ==
    /\ launch.called
    /\ launch.p.Type = "command"
    /\ Len(launch.p.Command) > 3
    /\ Len(launch.p.Path) > 1
    /\ Cardinality(DOMAIN launch.args) = 2
    /\ launch.result.err = "nil"
    /\ Len(launch.result.argv) >= 8

(***************************************************************************)
(* ParsePluginFlags (part_002:117-149)                                     *)
(***************************************************************************)
\* the longest argument list given
MaxArgs == 3

\* an argument is a sequence of characters
FlagArguments ==
    { <<"-", "-", "k", "=", "v">>,
      <<"-", "-", "k", "=", "v", "=", "w">>,
      <<"-", "-", "k">>,
      <<"-", "-", "j">>,
      <<"v">>,
      <<"-", "5">> }

ArgLists == UNION { [1..n -> FlagArguments] : n \in 0..MaxArgs }

\* strings.HasPrefix(arg, "-")
HasDash(arg) == arg # <<>> /\ arg[1] = "-"

\* strings.TrimLeft(arg, "-")
RECURSIVE TrimLeft(_)
TrimLeft(arg) == IF HasDash(arg) THEN TrimLeft(Tail(arg)) ELSE arg

\* strings.Contains(key, "=")
ContainsEq(key) == \E i \in DOMAIN key : key[i] = "="

\* the place of the first "=" of a key that has one
FirstEq(key) == CHOOSE i \in DOMAIN key : key[i] = "=" /\ \A j \in 1..(i - 1) : key[j] # "="

\* params[key] = value
Put(m, key, value) == [k \in DOMAIN m \cup {key} |-> IF k = key THEN value ELSE m[k]]

\* part_002:121-149  the loop from args[i] on
RECURSIVE ParseFrom(_, _, _)
ParseFrom(args, i, m) ==
    IF i > Len(args) THEN m
    ELSE LET arg == args[i]
             key == TrimLeft(arg)
         IN
         IF ~HasDash(arg)
         THEN ParseFrom(args, i + 1, m)
         ELSE IF ContainsEq(key)
         THEN ParseFrom(args, i + 1,
                        Put(m, SubSeq(key, 1, FirstEq(key) - 1),
                            SubSeq(key, FirstEq(key) + 1, Len(key))))
         ELSE IF i + 1 <= Len(args) /\ ~HasDash(args[i + 1])
         THEN ParseFrom(args, i + 2, Put(m, key, args[i + 1]))
         ELSE ParseFrom(args, i + 1, Put(m, key, <<"true">>))

\* one call of ParsePluginFlags
ParsePluginFlags ==
    /\ ~flags.called
    /\ \E args \in ArgLists :
         flags' = [called |-> TRUE, args |-> args,
                   params |-> ParseFrom(args, 1, [k \in {} |-> <<>>])]
    /\ UNCHANGED launch
    /\ UNCHANGED <<supVars, execVars, paramVars, coordVars, serverVars,
                   clientVars, configVars, skeletonVars>>

FlagsNext == ParsePluginFlags

SpecFlags == Init /\ [][FlagsNext]_vars

\* a flag of the documented forms begins with "--"
IsFlag(arg) == Len(arg) >= 2 /\ arg[1] = "-" /\ arg[2] = "-"

\* the parameters the documented forms stand for: "--k=v", "--k v" with the
\* value v that follows, "--k" alone; what is neither a flag nor the value
\* of one is ignored, and a later occurrence overrides an earlier one
RECURSIVE Documented(_, _, _)
Documented(args, i, m) ==
    IF i > Len(args) THEN m
    ELSE LET arg == args[i]
             name == SubSeq(arg, 3, Len(arg))
         IN
         IF ~IsFlag(arg)
         THEN Documented(args, i + 1, m)
         ELSE IF \E p \in DOMAIN name : name[p] = "="
         THEN LET p == CHOOSE q \in DOMAIN name :
                         name[q] = "=" /\ \A q2 \in 1..(q - 1) : name[q2] # "="
              IN Documented(args, i + 1,
                            Put(m, SubSeq(name, 1, p - 1),
                                SubSeq(name, p + 1, Len(name))))
         ELSE IF i + 1 <= Len(args) /\ ~IsFlag(args[i + 1])
         THEN Documented(args, i + 2, Put(m, name, args[i + 1]))
         ELSE Documented(args, i + 1, Put(m, name, <<"true">>))

\* C40: ParsePluginFlags returns the parameters the argument list stands
\* for: k -> v for "--k=v" (split at the first "="), k -> v for "--k"
\* followed by a value v, k -> "true" for a flag without a value, nothing for
\* the other arguments, the later occurrence of a key overriding.
C40_ParseAsDocumented ==
    flags.called => flags.params = Documented(flags.args, 1, [k \in {} |-> <<>>])

(***************************************************************************)
(* Properties of the supervisor's lock, monitors and restarts              *)
(***************************************************************************)
\* C34: while the one-second pause of a restart is in progress (as while a
\* StartPlugin readiness loop is), a GetPlugin of the caller does not have to
\* wait for it: the call can take the lock and return.
C34_NoLockAcrossWait ==
    \A h \in Handles :
      mon[h].pc = "restart" => \A name \in Names : ENABLED GetPlugin(name)

\* the ManagedPlugin of h was in the map and StopPlugin has removed it
Stopped(h) == managed[h].Name # "" /\ h \notin InMap /\ ~ctxDone

\* C35: once StopPlugin has removed a local plugin from the map, and StopAll
\* has not been called, nothing is closed, killed or spawned for its handle
\* any more.
C35_StoppedStaysStopped ==
    [][\A h \in Handles :
         (Stopped(h) /\ managed[h].Cmd # NilRef)
         => /\ restartSpawns'[h] = restartSpawns[h]
            /\ procs'[h] = procs[h]
            /\ open'[h] = open[h]]_vars

\* C36: the connection a running health monitor probes is the one of the
\* ManagedPlugin's current proxy, also after a restart has replaced the
\* proxy.
C36_ProbesCurrentTransport ==
    \A h \in Handles :
      (mon[h].pc \in {"wait", "notify", "restart"} /\ managed[h].GRPCClient # NilRef)
      => mon[h].client = managed[h].GRPCClient

\* C37: whenever no operation holds the lock and StopAll has not been
\* called, every ManagedPlugin in the map has a proxy the supervisor has not
\* closed and, when it is local, a process the supervisor has not killed.
C37_MapEntriesLive ==
    (mu = MuFree /\ ~ctxDone)
    => \A h \in InMap :
         /\ managed[h].Client \in open[h]
         /\ managed[h].Cmd # NilRef => procs[h].cmd

\* C38: once restartPlugin has returned, every process it spawned that is
\* still running is the one plug.Cmd refers to, so that the Kill of a
\* StopPlugin reaches it: no running process of the handle is left that
\* nothing refers to.
C38_NoLeakedChild ==
    \A h \in Handles :
      mu # h => (~procs[h].pending /\ procs[h].orphans = 0)

(***************************************************************************)
(* The supervisor under fair scheduling                                    *)
(***************************************************************************)
\* The goroutines keep running: a readiness loop and a restart go on after
\* their pauses.  sync.RWMutex hands the lock to a goroutine that has waited
\* for it (starvation mode of sync.Mutex), so a request that finds the lock
\* free again and again is granted: StopAll after its cancel
\* (manager.go:180) and the OnUnhealthy callback (manager.go:139).
SupFairness ==
    /\ WF_vars(StartReady)
    /\ SF_vars(StopAll)
    /\ \A h \in Handles : SF_vars(OnUnhealthy(h))
    /\ \A h \in Handles : WF_vars(RestartReconnect(h))

SpecFair == Init /\ [][Next]_vars /\ SupFairness

\* C39: under fair scheduling the lock is always released again, so that a
\* caller waiting for it can go on, and every operation that has requested
\* it returns: the StartPlugin that holds it through its readiness loop, the
\* StopAll that waits for it after its cancel, and every OnUnhealthy
\* callback of a monitor, through its restart.
C39_DeadlockFree ==
    /\ (mu # MuFree) ~> (mu = MuFree)
    /\ (call.op # "none") ~> (call.op = "none")
    /\ \A h \in Handles :
         (mon[h].pc \in {"notify", "restart"}) ~> (mon[h].pc = "wait")

\* StopAll has requested the lock that a restart callback holds
C39_Witness ==
    /\ call.op = "StopAll"
    /\ \E h \in Handles : mu = h /\ mon[h].pc = "restart"

====
